---- MODULE Spec2Model ----
(***************************************************************************)
(* Test-case generation pipeline of nitishast/testsm.                      *)
(*                                                                         *)
(* The repository holds two versions of the TestCaseGenerator pipeline:    *)
(*   "app"  src/app.py                  (config passed in, blob storage)   *)
(*   "gtc"  src/generate_test_cases.py  (earlier version, local files)     *)
(* The variable impl says which of the two runs.  Text that the code       *)
(* inspects character by character (data types, names, expected_result,    *)
(* inputs) is a tuple of one-character strings.                            *)
(***************************************************************************)
EXTENDS Integers, Sequences, FiniteSets, TLC

VARIABLES
    impl,               \* which module's main/TestCaseGenerator runs
    use_blob_storage,   \* config["use_blob_storage"] (app only)
    pc,                 \* position of main / generate_test_cases
    outcome,            \* "running", "returned" (main returned), "raised"
    raise_cause,        \* what raised, "none" while nothing did
    generate_invoked,   \* generate_test_cases has been called by main
    rules,              \* the rule set in the rule source (sequence of schema entries)
    source,             \* what loading the rule source gave, "unread" before
    total_fields,       \* local total_fields
    processed_fields,   \* local processed_fields
    idx,                \* position of the field loop in Pairs(rules)
    attempt,            \* loop variable of the retry loop
    temp_test_cases,    \* local temp_test_cases / test_cases, while in the retry loop
    all_test_cases,     \* the result mapping, in insertion order
    calls,              \* completion calls made so far, each with whether it
                        \* returned text and whether the attempt succeeded
    prompts,            \* pairs for which _generate_prompt returned
    first_accepted,     \* pair -> case list of its first successful attempt
    last_response,      \* the last completion outcome: its kind, while in the
                        \* retry loop, and whether it held a case the validator
                        \* accepts
    failure_logged,     \* pairs with a "Failed to generate ..." error entry
    json_artifact,      \* record-format artifact
    csv_artifact,       \* tabular-format artifact
    sink_log,           \* the writes the sink began, in their order (history)
    summary,            \* what _generate_summary reported
    candidate,          \* argument test_case of a _validate_test_case call on its own
    candidate_type,     \* argument data_type of that call, or of a parser call
    verdict,            \* what that _validate_test_case call gave
    normalized,         \* expected_result after the normalisation step, once and twice
    decoded,            \* what the text given to a _parse_llm_response call decodes to
    returned,           \* what that _parse_llm_response call gave
    response_text,      \* the JSON content a completion holds
    fence,              \* the code-fence markers put around that content
    unfenced,           \* what _parse_llm_response gave for the content as it is
    fenced,             \* what it gave for the content between the markers
    prompt_input,       \* the five arguments of a _generate_prompt call on its own
    prompt,             \* what that _generate_prompt call returned
    repaired,           \* what the backslash repair step gave for response_text
    completion_input,   \* the client object and what its API call does, for a
                        \* generate_test_cases_with_llm call on its own
    completion,         \* what that generate_test_cases_with_llm call gave
    attempt_result      \* what one retry iteration did with that completion

vars == <<impl, use_blob_storage, pc, outcome, raise_cause, generate_invoked,
          rules, source, total_fields, processed_fields, idx, attempt,
          temp_test_cases, all_test_cases, calls, prompts, first_accepted,
          last_response, failure_logged, json_artifact, csv_artifact, sink_log,
          summary,
          candidate, candidate_type, verdict, normalized, decoded, returned,
          response_text, fence, unfenced, fenced, prompt_input, prompt,
          repaired, completion_input, completion, attempt_result>>

\* the state of the whole pipeline run
run == <<pc, outcome, raise_cause, generate_invoked,
         rules, source, total_fields, processed_fields, idx, attempt,
         temp_test_cases, all_test_cases, calls, prompts, first_accepted,
         last_response, failure_logged, json_artifact, csv_artifact, sink_log,
         summary>>

\* the state of a validator or parser call made on its own
call == <<candidate, candidate_type, verdict, normalized, decoded, returned,
          response_text, fence, unfenced, fenced, prompt_input, prompt,
          repaired, completion_input, completion, attempt_result>>

\* the state of a parser call on fenced text, and of a prompt call
text == <<response_text, fence, unfenced, fenced>>
prompting == <<prompt_input, prompt>>
\* the state of a repair step and of a completion call made on their own
completing == <<repaired, completion_input, completion, attempt_result>>

----------------------------------------------------------------------------
(* Bounds and program constants *)

\* longest JSON array a completion returns
MaxElems == 2

\* a budget of one more attempt (variant for comparison)
max_retries_4 == 3 + 1
\* max_retries = 3
max_retries == 3

\* the figures the earlier version's summary prints
SummaryFieldsPrinted == 10
SummaryCasesPrinted == 122

----------------------------------------------------------------------------
(* Text *)

UpperCase == <<"A","B","C","D","E","F","G","H","I","J","K","L","M",
               "N","O","P","Q","R","S","T","U","V","W","X","Y","Z">>
LowerCase == <<"a","b","c","d","e","f","g","h","i","j","k","l","m",
               "n","o","p","q","r","s","t","u","v","w","x","y","z">>

\* str.lower() on one character
LowerChar(c) ==
    IF \E i \in 1..26 : UpperCase[i] = c
    THEN LowerCase[CHOOSE i \in 1..26 : UpperCase[i] = c]
    ELSE c

\* str.lower()
Lower(s) == [i \in 1..Len(s) |-> LowerChar(s[i])]

\* sub in s
Contains(s, sub) ==
    \E i \in 0..(Len(s) - Len(sub)) :
        \A j \in 1..Len(sub) : s[i + j] = sub[j]

txt_date   == <<"d","a","t","e">>
txt_time   == <<"t","i","m","e">>
txt_string == <<"s","t","r","i","n","g">>
txt_object == <<"o","b","j","e","c","t">>
txt_pass   == <<"p","a","s","s">>
txt_Pass   == <<"P","a","s","s">>
txt_Fail   == <<"F","a","i","l">>
txt_Date   == <<"D","a","t","e">>
txt_String == <<"S","t","r","i","n","g">>
txt_NULL   == <<"N","U","L","L">>
txt_dot    == <<".">>

\* data types as the ingestion writes them
dt_string   == <<"s","t","r","i","n","g">>
dt_datetime == <<"d","a","t","e","t","i","m","e","6","4","[","n","s","]">>
dt_int64    == <<"i","n","t","6","4">>

----------------------------------------------------------------------------
(* datetime.strptime(text, "%Y-%m-%d %H:%M:%S.%f") *)

Digits == {"0","1","2","3","4","5","6","7","8","9"}
NonZero == Digits \ {"0"}
Whitespace == {" ", "\t", "\n"}

DigitVal(c) ==
    CASE c = "1" -> 1 [] c = "2" -> 2 [] c = "3" -> 3 [] c = "4" -> 4
      [] c = "5" -> 5 [] c = "6" -> 6 [] c = "7" -> 7 [] c = "8" -> 8
      [] c = "9" -> 9 [] OTHER -> 0

\* int() of a run of digits (a leading blank of %d counts as nothing)
RECURSIVE NumVal(_)
NumVal(t) ==
    IF t = <<>> THEN 0
    ELSE 10 * NumVal(SubSeq(t, 1, Len(t) - 1)) + DigitVal(t[Len(t)])

\* the n characters of s from position a
Piece(s, a, n) == SubSeq(s, a, a + n - 1)

AllIn(t, S) == \A i \in 1..Len(t) : t[i] \in S

\* %m : 1[0-2]|0[1-9]|[1-9]
MonthText(t) ==
    \/ Len(t) = 2 /\ t[1] = "1" /\ t[2] \in {"0","1","2"}
    \/ Len(t) = 2 /\ t[1] = "0" /\ t[2] \in NonZero
    \/ Len(t) = 1 /\ t[1] \in NonZero

\* %d : 3[0-1]|[1-2]\d|0[1-9]|[1-9]| [1-9]
DayText(t) ==
    \/ Len(t) = 2 /\ t[1] = "3" /\ t[2] \in {"0","1"}
    \/ Len(t) = 2 /\ t[1] \in {"1","2"} /\ t[2] \in Digits
    \/ Len(t) = 2 /\ t[1] \in {"0"," "} /\ t[2] \in NonZero
    \/ Len(t) = 1 /\ t[1] \in NonZero

\* %H : 2[0-3]|[0-1]\d|\d
HourText(t) ==
    \/ Len(t) = 2 /\ t[1] = "2" /\ t[2] \in {"0","1","2","3"}
    \/ Len(t) = 2 /\ t[1] \in {"0","1"} /\ t[2] \in Digits
    \/ Len(t) = 1 /\ t[1] \in Digits

\* %M : [0-5]\d|\d
MinuteText(t) ==
    \/ Len(t) = 2 /\ t[1] \in {"0","1","2","3","4","5"} /\ t[2] \in Digits
    \/ Len(t) = 1 /\ t[1] \in Digits

\* %S : 6[0-1]|[0-5]\d|\d
SecondText(t) ==
    \/ Len(t) = 2 /\ t[1] = "6" /\ t[2] \in {"0","1"}
    \/ MinuteText(t)

IsLeap(y) == (y % 4 = 0) /\ ((y % 100 # 0) \/ (y % 400 = 0))

DaysInMonth(y, m) ==
    IF m = 2 THEN (IF IsLeap(y) THEN 29 ELSE 28)
    ELSE IF m \in {4, 6, 9, 11} THEN 30 ELSE 31

\* the datetime constructor accepts the parsed fields
DateTimeValid(y, m, d, sec) ==
    /\ y >= 1
    /\ d >= 1 /\ d <= DaysInMonth(y, m)
    /\ sec <= 59

\* strptime returns rather than raising ValueError
StrptimeOK(s) ==
    \E lm \in 1..2, ld \in 1..2, lH \in 1..2, lM \in 1..2, lS \in 1..2, lf \in 1..6 :
        LET lw == Len(s) - (4 + 1 + lm + 1 + ld + lH + 1 + lM + 1 + lS + 1 + lf)
            pm == 6
            pd == pm + lm + 1
            pw == pd + ld
            pH == pw + lw
            pM == pH + lH + 1
            pS == pM + lM + 1
            pf == pS + lS + 1
        IN  /\ lw >= 1
            /\ AllIn(Piece(s, 1, 4), Digits)
            /\ s[5] = "-"
            /\ MonthText(Piece(s, pm, lm))
            /\ s[pm + lm] = "-"
            /\ DayText(Piece(s, pd, ld))
            /\ AllIn(Piece(s, pw, lw), Whitespace)
            /\ HourText(Piece(s, pH, lH))
            /\ s[pH + lH] = ":"
            /\ MinuteText(Piece(s, pM, lM))
            /\ s[pM + lM] = ":"
            /\ SecondText(Piece(s, pS, lS))
            /\ s[pS + lS] = "."
            /\ AllIn(Piece(s, pf, lf), Digits)
            /\ DateTimeValid(NumVal(Piece(s, 1, 4)), NumVal(Piece(s, pm, lm)),
                             NumVal(Piece(s, pd, ld)), NumVal(Piece(s, pS, lS)))

----------------------------------------------------------------------------
(* Candidate test cases and validation *)

RequiredKeys == {"test_case", "description", "expected_result", "input"}

\* JSON values an "input" takes
InNull    == [t |-> "null", v |-> <<>>]
InStr(v)  == [t |-> "str", v |-> v]
InNum(v)  == [t |-> "num", v |-> v]
InBool(v) == [t |-> "bool", v |-> v]

\* str(input_val)
TextOf(input) == input.v

\* a decoded array element: a JSON object, or a bare JSON number, string,
\* boolean, null or array.  keys holds the names n for which "n in element"
\* is true: the keys of an object, the names occurring in a string, the
\* names that are members of an array.
Object(keys, tc, er, input) ==
    [kind |-> "obj", keys |-> keys, test_case |-> tc, description |-> "d",
     expected_result |-> er, input |-> input]
BareNumber ==
    [kind |-> "num", keys |-> {}, test_case |-> "", description |-> "",
     expected_result |-> <<>>, input |-> InNull]
BareBoolean == [BareNumber EXCEPT !.kind = "bool"]
BareNull == [BareNumber EXCEPT !.kind = "null"]
BareString(names) == [BareNumber EXCEPT !.kind = "str", !.keys = names]
NestedArray(names) == [BareNumber EXCEPT !.kind = "arr", !.keys = names]

\* [accepted, reason] pairs
Accept == [ok |-> TRUE, msg |-> ""]
Reject(msg) == [ok |-> FALSE, msg |-> msg]

\* a date check that takes any string (variant for comparison)
validate_date_any_string(test_case) ==
    IF test_case.input.t \in {"null", "str"} THEN Accept
    ELSE Reject("Date input must be a string")

\* a date check without the shortcut for null (variant for comparison)
validate_date_strings_only(test_case) ==
    IF test_case.input.t = "str"
    THEN IF StrptimeOK(test_case.input.v) THEN Accept
         ELSE Reject("Invalid date format. Expected formats: ['%Y-%m-%d %H:%M:%S.%f']")
    ELSE Reject("Date input must be a string")

validate_date_format(test_case) ==
    IF test_case.input.t = "null" THEN Accept
    ELSE IF test_case.input.t = "str"
         THEN IF StrptimeOK(test_case.input.v) THEN Accept
              ELSE Reject("Invalid date format. Expected formats: ['%Y-%m-%d %H:%M:%S.%f']")
         ELSE Reject("Date input must be a string")

validate_string_format(test_case) ==
    IF test_case.input.t = "null" THEN Accept
    ELSE IF test_case.input.t # "str" /\ test_case.expected_result = txt_Pass
         THEN Reject("String field with non-string input should fail if expected to Pass")
         ELSE Accept

\* app.py: the key of field_specific_rules a data type is mapped to
simplified_type(data_type) ==
    IF Contains(Lower(data_type), txt_date) \/ Contains(Lower(data_type), txt_time)
    THEN "Date"
    ELSE IF Contains(Lower(data_type), txt_string) \/ Contains(Lower(data_type), txt_object)
         THEN "String"
         ELSE "None"

\* generate_test_cases.py: data_type itself is the key looked up
rule_key(data_type) ==
    IF data_type = txt_Date THEN "Date"
    ELSE IF data_type = txt_String THEN "String" ELSE "None"

extra_validation(type_key, test_case) ==
    IF type_key = "Date" THEN validate_date_format(test_case)
    ELSE IF type_key = "String" THEN validate_string_format(test_case)
    ELSE Accept

\* "field in test_case" raises TypeError on a number, a boolean or null;
\* test_case["expected_result"] raises TypeError on a string or an array
\* (reached when all four names occur in it)
validate_raises(test_case) ==
    \/ test_case.kind \in {"num", "bool", "null"}
    \/ test_case.kind \in {"str", "arr"} /\ RequiredKeys \subseteq test_case.keys

\* the two universal checks in the other order (variant for comparison)
validate_result_first(im, test_case, data_type) ==
    IF test_case.expected_result \notin {txt_Pass, txt_Fail}
    THEN Reject("Invalid expected_result value")
    ELSE IF ~(RequiredKeys \subseteq test_case.keys)
         THEN Reject("Missing required fields")
         ELSE extra_validation(IF im = "app" THEN simplified_type(data_type)
                                             ELSE rule_key(data_type),
                               test_case)

\* expected_result compared whatever the case of its letters (variant for
\* comparison)
validate_any_case(im, test_case, data_type) ==
    IF ~(RequiredKeys \subseteq test_case.keys)
    THEN Reject("Missing required fields")
    ELSE IF Lower(test_case.expected_result) \notin {txt_pass, <<"f","a","i","l">>}
         THEN Reject("Invalid expected_result value")
         ELSE extra_validation(IF im = "app" THEN simplified_type(data_type)
                                             ELSE rule_key(data_type),
                               test_case)

validate_test_case(im, test_case, data_type) ==
    IF ~(RequiredKeys \subseteq test_case.keys)
    THEN Reject("Missing required fields")
    ELSE IF test_case.expected_result \notin {txt_Pass, txt_Fail}
         THEN Reject("Invalid expected_result value")
         ELSE extra_validation(IF im = "app" THEN simplified_type(data_type)
                                             ELSE rule_key(data_type),
                               test_case)

\* a normalisation that compares with "Pass" as spelled (variant for comparison)
normalize_exact(test_case) ==
    [test_case EXCEPT !.expected_result =
        IF test_case.expected_result = txt_Pass THEN txt_Pass ELSE txt_Fail]

\* case["expected_result"] = "Pass" if ....lower() == "pass" else "Fail"
normalize(test_case) ==
    [test_case EXCEPT !.expected_result =
        IF Lower(test_case.expected_result) = txt_pass THEN txt_Pass ELSE txt_Fail]

----------------------------------------------------------------------------
(* Completion outcomes and the response parser *)

\* what one completion call gives: an exception, None or empty text, text
\* that json.loads rejects, text that decodes to a non-array, or an array
Raised      == [kind |-> "exception", elems |-> <<>>]
NoText      == [kind |-> "none", elems |-> <<>>]
Undecodable == [kind |-> "undecodable", elems |-> <<>>]
NonArray    == [kind |-> "nonarray", elems |-> <<>>]
Array(elems) == [kind |-> "array", elems |-> elems]

\* the parser's result: None, or a list of cases
None == [none |-> TRUE, cases |-> <<>>]
List(cases) == [none |-> FALSE, cases |-> cases]

\* bool(x) of a parse result
Truthy(parsed) == ~parsed.none /\ parsed.cases # <<>>

RECURSIVE validated_cases(_, _, _)
validated_cases(im, elems, data_type) ==
    IF elems = <<>> THEN <<>>
    ELSE LET case == Head(elems)
             rest == validated_cases(im, Tail(elems), data_type)
         IN  IF validate_test_case(im, case, data_type).ok
             THEN <<normalize(case)>> \o rest
             ELSE rest

\* what the try block of _parse_llm_response raises, "none" if it returns
parse_exception(response) ==
    IF response.kind \in {"exception", "none"} THEN "AttributeError"
    ELSE IF response.kind = "undecodable" THEN "JSONDecodeError"
    ELSE IF response.kind = "nonarray" THEN "ValueError"
    ELSE IF \E i \in 1..Len(response.elems) : validate_raises(response.elems[i])
         THEN "TypeError"
         ELSE "none"

\* handlers that catch JSONDecodeError only (variant for comparison)
caught_decode_errors(exc) == exc = "JSONDecodeError"
\* "except json.JSONDecodeError" and "except Exception" of _parse_llm_response
caught(exc) ==
    exc \in {"JSONDecodeError", "ValueError", "TypeError", "AttributeError"}

\* the exception that leaves _parse_llm_response, "none" if it returns
parse_propagates(response) ==
    IF caught(parse_exception(response)) THEN "none" ELSE parse_exception(response)

parse_llm_response(im, response, data_type) ==
    IF parse_exception(response) = "none"
    THEN List(validated_cases(im, response.elems, data_type))
    ELSE None

----------------------------------------------------------------------------
(* Rule sets *)

FieldKeys == {"data_type", "mandatory_field", "primary_key", "business_rules"}

\* one entry of a schema's "fields" mapping
FieldSpec(name, data_type) ==
    [name |-> name, keys |-> FieldKeys, data_type |-> data_type]
\* a hand-written entry that lacks some keys
PartialSpec(name, keys, data_type) ==
    [name |-> name, keys |-> keys, data_type |-> data_type]

\* one entry of the rule mapping; has_fields: the "fields" key is present
Schema(name, fields) == [name |-> name, has_fields |-> TRUE, fields |-> fields]
SchemaWithoutFields(name) == [name |-> name, has_fields |-> FALSE, fields |-> <<>>]

n_Schema1 == <<"S","c","h","e","m","a","1">>
n_Field1  == <<"F","i","e","l","d","1">>
n_Field2  == <<"F","i","e","l","d","2">>
n_Field3  == <<"F","i","e","l","d","3">>
n_Ab      == <<"A",".","b">>
n_A       == <<"A">>
n_c       == <<"c">>
n_bc      == <<"b",".","c">>

\* the rule set of the repository's tests
RulesSample ==
    << Schema(n_Schema1, << FieldSpec(n_Field1, dt_string),
                            FieldSpec(n_Field2, dt_datetime) >>) >>

\* two schemas whose fields share the composite key "A.b.c"
RulesDotted ==
    << Schema(n_Ab, << FieldSpec(n_c, dt_string) >>),
       Schema(n_A,  << FieldSpec(n_bc, dt_int64) >>) >>

\* one schema with one field
RulesSingle ==
    << Schema(n_Schema1, << FieldSpec(n_Field1, dt_string) >>) >>

\* {} : a rule file without schemas
RulesEmpty == << >>

\* a field entry without "data_type", between two complete ones
RulesMissingType ==
    << Schema(n_Schema1,
              << FieldSpec(n_Field1, dt_string),
                 PartialSpec(n_Field2, FieldKeys \ {"data_type"}, <<>>),
                 FieldSpec(n_Field3, dt_int64) >>) >>

\* a schema entry without "fields", after a complete one
RulesMissingFields ==
    << Schema(n_A, << FieldSpec(n_c, dt_string) >>),
       SchemaWithoutFields(n_Schema1) >>

\* what the ingestion (parse_excel) can write: every field entry complete
IngestedRuleSets == {RulesSample, RulesDotted, RulesEmpty}
\* any rule file json.load accepts
AnyRuleSets == IngestedRuleSets \cup {RulesMissingType, RulesMissingFields}

\* f"{parent_field}.{field_name}"
full_field_name(parent_field, field_name) == parent_field \o txt_dot \o field_name

\* the (schema, field) pairs in the order the nested loops visit them
RECURSIVE Pairs(_)
Pairs(r) ==
    IF r = <<>> THEN <<>>
    ELSE [i \in 1..Len(Head(r).fields) |->
             [parent_field |-> Head(r).name,
              field_name   |-> Head(r).fields[i].name,
              keys         |-> Head(r).fields[i].keys,
              data_type    |-> Head(r).fields[i].data_type,
              key |-> full_field_name(Head(r).name, Head(r).fields[i].name)]]
         \o Pairs(Tail(r))

\* the pairs of every rule set, tabulated
PairsOf == [r \in AnyRuleSets \cup {RulesSingle} |-> Pairs(r)]

\* sum(len(details["fields"]) for details in rules.values())
count_fields(r) == Len(PairsOf[r])

----------------------------------------------------------------------------
(* The result mapping: a dict, kept as its items in insertion order.        *)
(* by: the pair whose attempt stored the list (history, not program state) *)

HasKey(m, k) == \E i \in 1..Len(m) : m[i].key = k

\* a mapping that puts a new key first (variant for comparison)
StoreAtFront(m, k, cases, by) ==
    IF HasKey(m, k)
    THEN [i \in 1..Len(m) |->
             IF m[i].key = k THEN [key |-> k, cases |-> cases, by |-> by] ELSE m[i]]
    ELSE <<[key |-> k, cases |-> cases, by |-> by]>> \o m
\* a mapping that extends the list of a key it has (variant for comparison)
StoreMerging(m, k, cases, by) ==
    IF HasKey(m, k)
    THEN [i \in 1..Len(m) |->
             IF m[i].key = k
             THEN [key |-> k, cases |-> m[i].cases \o cases, by |-> by]
             ELSE m[i]]
    ELSE Append(m, [key |-> k, cases |-> cases, by |-> by])
\* all_test_cases[k] = cases
Store(m, k, cases, by) ==
    IF HasKey(m, k)
    THEN [i \in 1..Len(m) |->
             IF m[i].key = k THEN [key |-> k, cases |-> cases, by |-> by] ELSE m[i]]
    ELSE Append(m, [key |-> k, cases |-> cases, by |-> by])

Lookup(m, k) == m[CHOOSE i \in 1..Len(m) : m[i].key = k].cases

\* the mapping as it is serialised
Items(m) == [i \in 1..Len(m) |-> [key |-> m[i].key, cases |-> m[i].cases]]

RECURSIVE total_cases(_)
total_cases(m) == IF m = <<>> THEN 0 ELSE Len(Head(m).cases) + total_cases(Tail(m))

----------------------------------------------------------------------------
(* The tabular export *)

\* a split at the last "." (variant for comparison)
LastDot(k) ==
    IF \E i \in 1..Len(k) : k[i] = "."
    THEN CHOOSE i \in 1..Len(k) : k[i] = "." /\ \A j \in (i + 1)..Len(k) : k[j] # "."
    ELSE 0

\* full_field_name.split('.', 1)
FirstDot(k) ==
    IF \E i \in 1..Len(k) : k[i] = "."
    THEN CHOOSE i \in 1..Len(k) : k[i] = "." /\ \A j \in 1..(i - 1) : k[j] # "."
    ELSE 0
split_schema(k) == IF FirstDot(k) = 0 THEN k ELSE SubSeq(k, 1, FirstDot(k) - 1)
split_field(k)  == IF FirstDot(k) = 0 THEN <<>> ELSE SubSeq(k, FirstDot(k) + 1, Len(k))

\* a row that leaves the Input column of a null input empty (variant for
\* comparison)
csv_row_null_blank(k, case) ==
    << split_schema(k), split_field(k), case.test_case, case.description,
       case.expected_result,
       IF case.input.t = "null" THEN <<>> ELSE TextOf(case.input) >>

csv_row(k, case) ==
    << split_schema(k), split_field(k), case.test_case, case.description,
       case.expected_result,
       IF case.input.t = "null" THEN txt_NULL ELSE TextOf(case.input) >>

\* headers = ['SchemaName', 'FieldName', 'Test Case', ...]
csv_header ==
    <<"SchemaName", "FieldName", "Test Case", "Description", "Expected Result",
      "Input">>

RECURSIVE csv_rows(_)
csv_rows(m) ==
    IF m = <<>> THEN <<>>
    ELSE [i \in 1..Len(Head(m).cases) |-> csv_row(Head(m).key, Head(m).cases[i])]
          \o csv_rows(Tail(m))

\* what the csv writer is given: the header row, then the data rows
csv_data(m) == <<csv_header>> \o csv_rows(m)

----------------------------------------------------------------------------
(* Completion outcomes the model draws from *)

in_hello == InStr(<<"h","e","l","l","o">>)
in_date  == InStr(<<"2","0","2","3","-","0","1","-","0","1"," ",
                    "1","0",":","0","0",":","0","0",".","0","0","0">>)
in_42    == InNum(<<"4","2">>)

ElemPool ==
    << Object(RequiredKeys, "TC001_Valid_String", txt_Pass, in_hello),
       Object(RequiredKeys \cup {"notes"}, "TC002_Null", txt_Fail, InNull),
       Object(RequiredKeys, "TC003_Valid_Date", txt_Pass, in_date),
       Object(RequiredKeys, "TC004_Number", txt_Pass, in_42),
       Object(RequiredKeys, "TC005_Lower", txt_pass, in_hello),
       Object(RequiredKeys \ {"input"}, "TC006_No_Input", txt_Pass, InNull),
       BareNumber >>

\* the members of a set of positions, ascending
Ascending(S) ==
    CHOOSE f \in [1..Cardinality(S) -> S] :
        \A i, j \in 1..Cardinality(S) : i < j => f[i] < f[j]

\* arrays of at most MaxElems distinct pool elements, in pool order
Arrays ==
    { [i \in 1..Cardinality(S) |-> ElemPool[Ascending(S)[i]]] :
        S \in { T \in SUBSET (1..Len(ElemPool)) : Cardinality(T) <= MaxElems } }

Responses == {Raised, NoText, Undecodable, NonArray} \cup { Array(a) : a \in Arrays }

DataTypes == {dt_string, dt_datetime, dt_int64, <<>>}

\* the response is an array with an element that _validate_test_case accepts
holds_accepted(im, response, data_type) ==
    \E i \in 1..Len(response.elems) :
        /\ ~validate_raises(response.elems[i])
        /\ validate_test_case(im, response.elems[i], data_type).ok

\* every response with what _parse_llm_response returns for it, tabulated
\* per version and data type (accepts: history, not program state)
Parsed ==
    [im \in {"app", "gtc"} |-> [dt \in DataTypes |->
        { [kind |-> r.kind, parsed |-> parse_llm_response(im, r, dt),
           accepts |-> holds_accepted(im, r, dt)] : r \in Responses }]]

----------------------------------------------------------------------------
(* main and generate_test_cases *)

\* no validator or parser call of its own is under way
Pending == [pending |-> TRUE]
NotCalled ==
    /\ candidate = Pending
    /\ candidate_type = Pending
    /\ verdict = Pending
    /\ normalized = Pending
    /\ decoded = Pending
    /\ returned = Pending
    /\ response_text = Pending
    /\ fence = Pending
    /\ unfenced = Pending
    /\ fenced = Pending
    /\ prompt_input = Pending
    /\ prompt = Pending
    /\ repaired = Pending
    /\ completion_input = Pending
    /\ completion = Pending
    /\ attempt_result = Pending

\* no parser call on fenced text and no prompt call is under way
NoTextCall ==
    /\ response_text = Pending
    /\ fence = Pending
    /\ unfenced = Pending
    /\ fenced = Pending
NoPromptCall ==
    /\ prompt_input = Pending
    /\ prompt = Pending
\* no repair step and no completion call of its own is under way
NoCompletionCall ==
    /\ repaired = Pending
    /\ completion_input = Pending
    /\ completion = Pending
    /\ attempt_result = Pending

NoResponse == [kind |-> "none yet", accepts |-> FALSE]
\* an artifact target.  status: what the run did at the target ("not tried",
\* "skipped", "written", "failed"); prior: what became of the artifact an
\* earlier run left there ("none": there was none, "in place": it is still
\* at the target, "archived": it was renamed to <name>.<timestamp>.bak,
\* "lost": it was overwritten or truncated where it stood)
NoArtifact ==
    [written |-> FALSE, content |-> <<>>, status |-> "not tried", prior |-> "none"]
\* the target holds the artifact of an earlier run
PriorArtifact == [NoArtifact EXCEPT !.prior = "in place"]
\* avg: the mean as the fraction num/den it is the value of
NoSummary  ==
    [logged |-> FALSE, fields |-> 0, cases |-> 0, avg |-> [num |-> 0, den |-> 1]]

InitRun(ruleSets, targets) ==
    /\ impl \in {"app", "gtc"}
    /\ use_blob_storage \in BOOLEAN
    /\ impl = "gtc" => ~use_blob_storage
    /\ pc = "main"
    /\ outcome = "running"
    /\ raise_cause = "none"
    /\ generate_invoked = FALSE
    /\ rules \in ruleSets
    /\ source = "unread"
    /\ total_fields = 0
    /\ processed_fields = 0
    /\ idx = 1
    /\ attempt = 0
    /\ temp_test_cases = None
    /\ all_test_cases = <<>>
    /\ calls = <<>>
    /\ prompts = <<>>
    /\ first_accepted = [i \in 1..Len(PairsOf[rules]) |-> <<>>]
    /\ last_response = NoResponse
    /\ failure_logged = {}
    /\ json_artifact \in targets
    /\ csv_artifact \in targets
    /\ sink_log = <<>>
    /\ summary = NoSummary
    /\ NotCalled

\* a run that finds no artifact of an earlier run at its targets
InitWith(ruleSets) == InitRun(ruleSets, {NoArtifact})

\* no pipeline run: the validator or the parser is called on its own
NotRun ==
    /\ use_blob_storage = FALSE
    /\ pc = "not run"
    /\ outcome = "running"
    /\ raise_cause = "none"
    /\ generate_invoked = FALSE
    /\ rules = RulesEmpty
    /\ source = "unread"
    /\ total_fields = 0
    /\ processed_fields = 0
    /\ idx = 1
    /\ attempt = 0
    /\ temp_test_cases = None
    /\ all_test_cases = <<>>
    /\ calls = <<>>
    /\ prompts = <<>>
    /\ first_accepted = <<>>
    /\ last_response = NoResponse
    /\ failure_logged = {}
    /\ json_artifact = NoArtifact
    /\ csv_artifact = NoArtifact
    /\ sink_log = <<>>
    /\ summary = NoSummary

\* the rule file holds what the ingestion wrote
Init == InitWith(IngestedRuleSets)
\* the rule file holds any JSON mapping
InitAnyRules == InitWith(AnyRuleSets)
\* a run over one field, its targets free or holding the artifacts of an
\* earlier run
InitRerun == InitRun({RulesSingle}, {NoArtifact, PriorArtifact})

\* an exception leaves generate_test_cases and main re-raises it
Raise(cause) ==
    /\ pc' = "done"
    /\ outcome' = "raised"
    /\ raise_cause' = cause

\* generate_test_cases returns and main returns
Return ==
    /\ pc' = "done"
    /\ outcome' = "returned"
    /\ raise_cause' = raise_cause

\* generator = TestCaseGenerator(...): the configuration loads or it raises
Construct ==
    /\ pc = "main"
    /\ \E config_ok \in BOOLEAN :
         IF config_ok
         THEN pc' = "initialize_llm" /\ UNCHANGED <<outcome, raise_cause>>
         ELSE Raise("config")
    /\ UNCHANGED <<impl, use_blob_storage, generate_invoked, rules, source, total_fields,
                   processed_fields, idx, attempt, temp_test_cases,
                   all_test_cases, calls, prompts, first_accepted, last_response,
                   failure_logged, json_artifact, csv_artifact,
                   sink_log, summary>>
    /\ UNCHANGED call

\* llm_client = llm.initialize_llm(config)
InitializeLlm ==
    /\ pc = "initialize_llm"
    /\ \E result \in {"client", "unsupported_api", "bad_credentials"} :
         IF result = "client"
         THEN pc' = "load_rules" /\ UNCHANGED <<outcome, raise_cause>>
         ELSE Raise("client_init")
    /\ UNCHANGED <<impl, use_blob_storage, generate_invoked, rules, source, total_fields,
                   processed_fields, idx, attempt, temp_test_cases,
                   all_test_cases, calls, prompts, first_accepted, last_response,
                   failure_logged, json_artifact, csv_artifact,
                   sink_log, summary>>
    /\ UNCHANGED call

\* a failed load that lets the run go on (variant for comparison)
load_failed_goes_on == pc' = "count_fields" /\ UNCHANGED <<outcome, raise_cause>>
\* what a failed load of the rule source does to the run: app.py logs and
\* returns, generate_test_cases.py re-raises
load_failed ==
    IF impl = "app" THEN Return ELSE Raise("source_load")

\* "if not rules": an empty mapping counts as not loaded (app.py only)
rules_rejected == impl = "app" /\ rules = <<>>

\* generate_test_cases is entered and loads the rule source
LoadRules ==
    /\ pc = "load_rules"
    /\ generate_invoked' = TRUE
    /\ \E result \in {"loaded", "missing", "unreadable", "unparseable"} :
         /\ source' = result
         /\ IF result = "loaded"
            THEN IF rules_rejected
                 THEN Return
                 ELSE pc' = "count_fields" /\ UNCHANGED <<outcome, raise_cause>>
            ELSE load_failed
    /\ UNCHANGED <<impl, use_blob_storage, rules, total_fields,
                   processed_fields, idx, attempt, temp_test_cases,
                   all_test_cases, calls, prompts, first_accepted, last_response,
                   failure_logged, json_artifact, csv_artifact,
                   sink_log, summary>>
    /\ UNCHANGED call

\* all_test_cases = {}; total_fields = sum(len(details["fields"]) ...)
CountFields ==
    /\ pc = "count_fields"
    /\ IF \E i \in 1..Len(rules) : ~rules[i].has_fields
       THEN Raise("rule_structure") /\ UNCHANGED total_fields
       ELSE /\ total_fields' = count_fields(rules)
            /\ pc' = "next_field"
            /\ UNCHANGED <<outcome, raise_cause>>
    /\ UNCHANGED <<impl, use_blob_storage, generate_invoked, rules, source,
                   processed_fields, idx, attempt, temp_test_cases,
                   all_test_cases, calls, prompts, first_accepted, last_response,
                   failure_logged, json_artifact, csv_artifact,
                   sink_log, summary>>
    /\ UNCHANGED call

\* "if full_field_name in all_test_cases: continue" (generate_test_cases.py)
skip_duplicate(key) == impl = "gtc" /\ HasKey(all_test_cases, key)

\* field_details["data_type"], ["mandatory_field"], ["primary_key"]
prompt_raises(p) ==
    ~({"data_type", "mandatory_field", "primary_key"} \subseteq p.keys)

\* the head of the field loop, up to the retry loop
NextField ==
    /\ pc = "next_field"
    /\ IF idx > Len(PairsOf[rules])
       THEN /\ pc' = "save"
            /\ UNCHANGED <<outcome, raise_cause, idx, attempt, temp_test_cases, prompts>>
       ELSE LET p == PairsOf[rules][idx] IN
            IF skip_duplicate(p.key)
            THEN /\ idx' = idx + 1
                 /\ UNCHANGED <<pc, outcome, raise_cause, attempt, temp_test_cases, prompts>>
            ELSE IF prompt_raises(p)
                 THEN /\ Raise("field_spec")
                      /\ UNCHANGED <<idx, attempt, temp_test_cases, prompts>>
                 ELSE /\ prompts' = Append(prompts, idx)
                      /\ attempt' = 0
                      /\ temp_test_cases' = None
                      /\ pc' = "attempt"
                      /\ UNCHANGED <<outcome, raise_cause, idx>>
    /\ UNCHANGED <<impl, use_blob_storage, generate_invoked, rules, source, total_fields,
                   processed_fields, all_test_cases, calls, first_accepted,
                   last_response, failure_logged, json_artifact, csv_artifact, sink_log,
                   summary>>
    /\ UNCHANGED call

\* the value of temp_test_cases / test_cases after the try block
\* (response.parsed: what _parse_llm_response returns when it is called)
parsed_after(response, before) ==
    IF response.kind = "exception" THEN before
    ELSE IF impl = "app" /\ response.kind = "none" THEN before
    ELSE response.parsed

\* "if temp_test_cases is not None:" (variant for comparison)
succeeded_any_list(response, parsed) == response.kind = "array" /\ ~parsed.none
\* "if temp_test_cases:" is reached and holds
succeeded(response, parsed) ==
    response.kind \notin {"exception", "none"} /\ Truthy(parsed)

\* a retry loop without a last attempt (variant for comparison)
last_attempt_never(a) == FALSE
\* the retry loop has no attempt left after this one
last_attempt(a) == a = max_retries - 1

\* the "Failed to generate test cases for ... after 3 attempts" entry
logs_failure(response, parsed, a) ==
    IF impl = "app"
    THEN a = max_retries - 1 /\ ~Truthy(parsed)
    ELSE a = max_retries - 1 /\ response.kind = "exception"

\* one iteration of the retry loop: the completion call and what follows it
Attempt ==
    /\ pc = "attempt"
    /\ \E response \in Parsed[impl][PairsOf[rules][idx].data_type] :
         LET p == PairsOf[rules][idx]
             parsed == parsed_after(response, temp_test_cases)
             leaves == succeeded(response, parsed) \/ last_attempt(attempt)
         IN  /\ calls' = Append(calls, [pair |-> idx, attempt |-> attempt,
                                         text |-> response.kind \notin {"exception", "none"},
                                         ok |-> succeeded(response, parsed)])
             /\ last_response' = [kind |-> IF leaves THEN "none yet" ELSE response.kind,
                                   accepts |-> response.accepts]
             /\ temp_test_cases' = IF leaves THEN None ELSE parsed
             /\ IF succeeded(response, parsed)
                THEN /\ all_test_cases' = Store(all_test_cases, p.key, parsed.cases, idx)
                     /\ first_accepted' = [first_accepted EXCEPT ![idx] = parsed.cases]
                     /\ processed_fields' = processed_fields + 1
                     /\ idx' = idx + 1
                     /\ pc' = "next_field"
                     /\ UNCHANGED <<attempt, failure_logged>>
                ELSE /\ failure_logged' =
                          IF logs_failure(response, parsed, attempt)
                          THEN failure_logged \cup {idx} ELSE failure_logged
                     /\ IF last_attempt(attempt)
                        THEN /\ processed_fields' = processed_fields + 1
                             /\ idx' = idx + 1
                             /\ pc' = "next_field"
                             /\ UNCHANGED attempt
                        ELSE /\ attempt' = attempt + 1
                             /\ UNCHANGED <<processed_fields, idx, pc>>
                     /\ UNCHANGED <<all_test_cases, first_accepted>>
    /\ UNCHANGED <<impl, use_blob_storage, outcome, raise_cause, generate_invoked,
                   rules, source, total_fields, prompts, json_artifact, csv_artifact,
                   sink_log,
                   summary>>
    /\ UNCHANGED call

\* an export that is never skipped (variant for comparison)
skips_csv_never(m) == FALSE
\* "if not test_cases:" before the tabular export
skips_csv(m) == m = <<>>

\* the steps of a local write in their order; "done": none of them raised
WriteSteps == {"makedirs", "open", "dump", "done"}

\* a local write: os.makedirs, then os.rename of an existing file to its
\* backup name (a failed rename is logged and the write goes on), then
\* open(..., "w") and the dump.  step: the step that raised
local_write(target, content, renamed, step) ==
    [written |-> step = "done",
     content |-> IF step = "done" THEN content ELSE <<>>,
     status  |-> IF step = "done" THEN "written" ELSE "failed",
     prior   |-> IF target.prior # "in place" THEN target.prior
                 ELSE IF step = "makedirs" THEN "in place"
                 ELSE IF renamed THEN "archived"
                 ELSE IF step = "open" THEN "in place"
                 ELSE "lost"]

\* blob_client.upload_blob(data, overwrite=True): upload_data returns
\* whether it went through
blob_write(target, content, ok) ==
    [written |-> ok,
     content |-> IF ok THEN content ELSE <<>>,
     status  |-> IF ok THEN "written" ELSE "failed",
     prior   |-> IF target.prior = "in place" /\ ok THEN "lost" ELSE target.prior]

\* what a local write can leave at a target, whichever step raises and
\* whether or not the rename goes through
local_writes(target, content, steps) ==
    { local_write(target, content, renamed, step) :
        renamed \in BOOLEAN, step \in steps }
\* what an upload can leave at a target
blob_writes(target, content) ==
    { blob_write(target, content, ok) : ok \in BOOLEAN }

\* the tabular export that follows a record-format write that went through
csv_exports(writes) ==
    IF skips_csv(all_test_cases)
    THEN { [csv_artifact EXCEPT !.status = "skipped"] }
    ELSE writes

\* the tabular write entered before the record-format write (variant for
\* comparison)
write_log_csv_first(json_new, csv_new) ==
    (IF csv_new.status \in {"written", "failed"} THEN <<"csv">> ELSE <<>>)
    \o (IF json_new.status \in {"written", "failed"} THEN <<"json">> ELSE <<>>)
\* the writes _save_test_cases begins, in the order of its statements: the
\* record-format write, then the tabular one unless it is skipped or the
\* function was left before it
write_log(json_new, csv_new) ==
    (IF json_new.status \in {"written", "failed"} THEN <<"json">> ELSE <<>>)
    \o (IF csv_new.status \in {"written", "failed"} THEN <<"csv">> ELSE <<>>)

\* _save_test_cases, object store: nothing it does raises to the caller
SaveBlob ==
    /\ pc = "save"
    /\ impl = "app" /\ use_blob_storage
    /\ \E manager_ok \in BOOLEAN :
         IF ~manager_ok
         THEN /\ json_artifact' = [json_artifact EXCEPT !.status = "failed"]
              /\ UNCHANGED <<csv_artifact, sink_log>>
         ELSE /\ json_artifact' \in blob_writes(json_artifact, Items(all_test_cases))
              /\ csv_artifact' \in
                    csv_exports(blob_writes(csv_artifact, csv_data(all_test_cases)))
              /\ sink_log' = sink_log \o write_log(json_artifact', csv_artifact')
    /\ pc' = "summary"
    /\ UNCHANGED <<impl, use_blob_storage, outcome, raise_cause, generate_invoked,
                   rules, source, total_fields, processed_fields, idx, attempt,
                   temp_test_cases, all_test_cases, calls, prompts,
                   first_accepted, last_response, failure_logged, summary>>
    /\ UNCHANGED call

\* _save_test_cases, local files: a failed JSON write is re-raised, a failed
\* CSV write is logged
SaveLocal ==
    /\ pc = "save"
    /\ ~use_blob_storage
    /\ \E json_new \in local_writes(json_artifact, Items(all_test_cases), WriteSteps) :
         /\ json_artifact' = json_new
         /\ IF json_new.status # "written"
            THEN /\ Raise("sink_write")
                 /\ UNCHANGED csv_artifact
            ELSE /\ csv_artifact' \in
                       csv_exports(local_writes(csv_artifact, csv_data(all_test_cases),
                                                WriteSteps \ {"makedirs"}))
                 /\ pc' = "summary"
                 /\ UNCHANGED <<outcome, raise_cause>>
         /\ sink_log' = sink_log \o write_log(json_artifact', csv_artifact')
    /\ UNCHANGED <<impl, use_blob_storage, generate_invoked,
                   rules, source, total_fields, processed_fields, idx, attempt,
                   temp_test_cases, all_test_cases, calls, prompts,
                   first_accepted, last_response, failure_logged, summary>>
    /\ UNCHANGED call

\* the figures _generate_summary logs
summary_of(m) ==
    IF impl = "app"
    THEN [logged |-> TRUE, fields |-> Len(m), cases |-> total_cases(m),
          avg |-> IF Len(m) > 0 THEN [num |-> total_cases(m), den |-> Len(m)]
                  ELSE [num |-> 0, den |-> 1]]
    ELSE [logged |-> TRUE, fields |-> SummaryFieldsPrinted,
          cases |-> SummaryCasesPrinted,
          avg |-> [num |-> SummaryCasesPrinted, den |-> SummaryFieldsPrinted]]

\* "if total_fields > 0: self._generate_summary(...)", then main returns
Summary ==
    /\ pc = "summary"
    /\ IF total_fields > 0
       THEN \E manager_ok \in BOOLEAN :
              IF impl = "app" /\ use_blob_storage /\ ~manager_ok
              THEN Raise("summary") /\ UNCHANGED summary
              ELSE summary' = summary_of(all_test_cases) /\ Return
       ELSE Return /\ UNCHANGED summary
    /\ UNCHANGED <<impl, use_blob_storage, generate_invoked,
                   rules, source, total_fields, processed_fields, idx, attempt,
                   temp_test_cases, all_test_cases, calls, prompts,
                   first_accepted, last_response, failure_logged,
                   json_artifact, csv_artifact, sink_log>>
    /\ UNCHANGED call

Next ==
    \/ Construct
    \/ InitializeLlm
    \/ LoadRules
    \/ CountFields
    \/ NextField
    \/ Attempt
    \/ SaveBlob
    \/ SaveLocal
    \/ Summary

Spec == Init /\ [][Next]_vars
SpecAnyRules == InitAnyRules /\ [][Next]_vars
SpecRerun == InitRerun /\ [][Next]_vars
\* main runs on one thread and every call it makes returns or raises: a
\* step that can be taken is taken
SpecLive == Init /\ [][Next]_vars /\ WF_vars(Next)

----------------------------------------------------------------------------
(* _validate_test_case and the normalisation step, called on their own *)

txt_PASS  == <<"P","A","S","S">>
txt_fail  == <<"f","a","i","l">>
txt_FAIL  == <<"F","A","I","L">>
txt_Maybe == <<"M","a","y","b","e">>

dt_float64    == <<"f","l","o","a","t","6","4">>
dt_bool       == <<"b","o","o","l">>
dt_object     == <<"o","b","j","e","c","t">>
dt_DateTime   == <<"D","a","t","e","T","i","m","e">>
dt_datestring == <<"d","a","t","e","s","t","r","i","n","g">>

in_true       == InBool(<<"T","r","u","e">>)
\* "2024-07-29 10:30:00.123456"
in_date_micro == InStr(<<"2","0","2","4","-","0","7","-","2","9"," ","1","0",":","3","0",":","0","0",".","1","2","3","4","5","6">>)
\* "2024/07/29"
in_slashes    == InStr(<<"2","0","2","4","/","0","7","/","2","9">>)
\* "2023-02-30 10:00:00.000000"
in_feb30      == InStr(<<"2","0","2","3","-","0","2","-","3","0"," ","1","0",":","0","0",":","0","0",".","0","0","0","0","0","0">>)
\* "2024-7-9 1:2:3.5"
in_short      == InStr(<<"2","0","2","4","-","7","-","9"," ","1",":","2",":","3",".","5">>)

Spellings == {txt_Pass, txt_Fail, txt_PASS, txt_pass, txt_fail, txt_FAIL, txt_Maybe, <<>>}

Inputs == {InNull, in_hello, in_date, in_date_micro, in_slashes, in_feb30,
           in_short, in_42, in_true}

KeySets == {RequiredKeys, RequiredKeys \ {"input"},
            RequiredKeys \ {"expected_result"}, {}}

\* what a decoded array may hold besides objects
BareElements ==
    {BareNumber, BareBoolean, BareNull, BareString({}), BareString(RequiredKeys),
     NestedArray({}), NestedArray(RequiredKeys)}

Candidates ==
    { Object(k, "TC", er, input) : k \in KeySets, er \in Spellings, input \in Inputs }
    \cup BareElements

TypeNames == {dt_string, dt_datetime, dt_int64, dt_float64, dt_bool, dt_object,
              txt_Date, txt_String, dt_DateTime, dt_datestring}

InitValidate ==
    /\ impl \in {"app", "gtc"}
    /\ NotRun
    /\ candidate \in Candidates
    /\ candidate_type \in TypeNames
    /\ verdict = Pending
    /\ normalized = Pending
    /\ decoded = Pending
    /\ returned = Pending
    /\ NoTextCall
    /\ NoPromptCall
    /\ NoCompletionCall

\* is_valid, error_msg = self._validate_test_case(case, data_type)
Validate ==
    /\ verdict = Pending
    /\ verdict' =
          IF validate_raises(candidate)
          THEN [raised |-> TRUE, ok |-> FALSE, msg |-> "TypeError"]
          ELSE LET v == validate_test_case(impl, candidate, candidate_type)
               IN  [raised |-> FALSE, ok |-> v.ok, msg |-> v.msg]
    /\ UNCHANGED <<impl, use_blob_storage, run, candidate, candidate_type,
                   normalized, decoded, returned, text, prompting, completing>>

\* case["expected_result"] = ..., applied once and once more
Normalize ==
    /\ normalized = Pending
    /\ candidate.kind = "obj"
    /\ "expected_result" \in candidate.keys
    /\ normalized' =
          [once |-> normalize(candidate).expected_result,
           twice |-> normalize(normalize(candidate)).expected_result]
    /\ UNCHANGED <<impl, use_blob_storage, run, candidate, candidate_type,
                   verdict, decoded, returned, text, prompting, completing>>

NextValidate ==
    \/ Validate
    \/ Normalize

SpecValidate == InitValidate /\ [][NextValidate]_vars

----------------------------------------------------------------------------
(* _parse_llm_response called on its own *)

\* text that decodes to a JSON value of type t that is not an array
NonArrayValue(t) == [kind |-> "nonarray", elems |-> <<>>, value |-> t]

ParsePool ==
    { ElemPool[i] : i \in 1..Len(ElemPool) }
    \cup {Object(RequiredKeys, "TC007_Upper", txt_PASS, in_hello),
          Object(RequiredKeys, "TC008_Maybe", txt_Maybe, in_hello)}
    \cup {BareString({}), BareString(RequiredKeys), BareNull, BareBoolean, NestedArray({})}

\* arrays of at most MaxElems pool elements, in any order
ParseArrays == UNION { [1..n -> ParsePool] : n \in 0..MaxElems }

ParseInputs ==
    {NoText, Undecodable}
    \cup { NonArrayValue(t) : t \in {"object", "string", "number", "boolean", "null"} }
    \cup { Array(a) : a \in ParseArrays }

InitParse ==
    /\ impl \in {"app", "gtc"}
    /\ NotRun
    /\ candidate = Pending
    /\ candidate_type \in {dt_string, dt_datetime, dt_int64}
    /\ verdict = Pending
    /\ normalized = Pending
    /\ decoded \in ParseInputs
    /\ returned = Pending
    /\ NoTextCall
    /\ NoPromptCall
    /\ NoCompletionCall

\* temp_test_cases = self._parse_llm_response(response_text, data_type)
Parse ==
    /\ returned = Pending
    /\ returned' =
          IF parse_propagates(decoded) # "none"
          THEN [raised |-> TRUE, none |-> TRUE, cases |-> <<>>]
          ELSE LET r == parse_llm_response(impl, decoded, candidate_type)
               IN  [raised |-> FALSE, none |-> r.none, cases |-> r.cases]
    /\ UNCHANGED <<impl, use_blob_storage, run, candidate, candidate_type,
                   verdict, normalized, decoded, text, prompting, completing>>

NextParse == Parse

SpecParse == InitParse /\ [][NextParse]_vars

----------------------------------------------------------------------------
(* _parse_llm_response called on the text of a completion *)

\* the grave accent (U+0060), which a string of this language cannot hold
Backtick == "grave accent"

txt_fence_json == <<Backtick,Backtick,Backtick,"j","s","o","n">>
txt_fence      == <<Backtick,Backtick,Backtick>>

StartsWith(s, sub) == Len(sub) <= Len(s) /\ SubSeq(s, 1, Len(sub)) = sub

\* sub stands in s from position i on
OccursAt(s, sub, i) ==
    i + Len(sub) - 1 <= Len(s) /\ SubSeq(s, i, i + Len(sub) - 1) = sub

\* the positions where a scan of s from left to right finds sub, no find
\* overlapping the one before it
Finds(s, sub) ==
    LET found[i \in 1..Len(s)] ==
            /\ OccursAt(s, sub, i)
            /\ \A j \in 1..(i - 1) : j > i - Len(sub) => ~found[j]
    IN  { i \in 1..Len(s) : found[i] }

\* the characters of s at the positions in K, in their order
Keep(s, K) ==
    LET at == SelectSeq([i \in 1..Len(s) |-> i], LAMBDA i : i \in K)
    IN  [j \in 1..Len(at) |-> s[at[j]]]

\* s.replace(sub, "")
remove(s, sub) ==
    LET F == Finds(s, sub)
    IN  Keep(s, { k \in 1..Len(s) :
                    ~\E i \in F : i <= k /\ k <= i + Len(sub) - 1 })

\* s.strip()
StripChars == Whitespace \cup {"\r", "\f"}
strip(s) ==
    LET inner == { i \in 1..Len(s) : s[i] \notin StripChars }
    IN  Keep(s, { k \in 1..Len(s) :
                    /\ \E i \in inner : i <= k
                    /\ \E i \in inner : k <= i })

\* a cleaning that takes out the "```json" marker only (variant for comparison)
cleaned_text_json_marker(response) == strip(remove(response, txt_fence_json))
\* response_text.replace("```json", "").replace("```", "").strip()
cleaned_text(response) ==
    strip(remove(remove(response, txt_fence_json), txt_fence))

\* a pattern that excludes the double quote only, \\([^"]) (variant for
\* comparison)
Matched_before_backslash(s) ==
    LET found[i \in 1..Len(s)] ==
            /\ s[i] = "\\"
            /\ i < Len(s)
            /\ s[i + 1] # "\""
            /\ i > 1 => ~found[i - 1]
    IN  { i \in 1..Len(s) : found[i] }

\* the backslashes of s that re.sub(r'\\([^"\\])', ...) matches: each is
\* followed by a character other than a double quote or a backslash, and is
\* not itself the character matched after the backslash before it
Matched(s) ==
    LET found[i \in 1..Len(s)] ==
            /\ s[i] = "\\"
            /\ i < Len(s)
            /\ s[i + 1] \notin {"\"", "\\"}
            /\ i > 1 => ~found[i - 1]
    IN  { i \in 1..Len(s) : found[i] }

\* re.sub(r'\\([^"\\])', r'\\\\\1', cleaned_text): every matched backslash
\* is written twice, the character after it and all other text stay
repaired_text(s) ==
    LET M == Matched(s)
        before(i) == Cardinality({ j \in M : j < i })
        n == Len(s) + Cardinality(M)
    IN  [p \in 1..n |->
            s[CHOOSE i \in 1..Len(s) :
                 /\ i + before(i) <= p
                 /\ p <= i + before(i) + (IF i \in M THEN 1 ELSE 0)]]

\* texts of completions, as JSON content
\* []
js_empty_array == <<"[","]">>
\* [42]
js_number_array == <<"[","4","2","]">>
\* {}
js_object == <<"{","}">>
\* 42
js_number == <<"4","2">>
\* null
js_null == <<"n","u","l","l">>
\* ["```"]
js_ticks == <<"[","\"",Backtick,Backtick,Backtick,"\"","]">>
\* [""]
js_empty_string == <<"[","\"","\"","]">>
\* [{"test_case":"T1","description":"d","expected_result":"Pass","input":null}]
js_case_null ==
    <<"[","{","\"","t","e","s","t","_","c","a","s","e","\"",":","\"","T","1","\"",",","\"","d","e","s","c","r","i","p","t","i","o","n","\"",":","\"","d","\"",",","\"","e","x","p","e","c","t","e","d","_","r","e","s","u","l","t","\"",":","\"","P","a","s","s","\"",",","\"","i","n","p","u","t","\"",":","n","u","l","l","}","]">>
\* [{"test_case":"T1","description":"d","expected_result":"Pass","input":42}]
js_case_42 ==
    <<"[","{","\"","t","e","s","t","_","c","a","s","e","\"",":","\"","T","1","\"",",","\"","d","e","s","c","r","i","p","t","i","o","n","\"",":","\"","d","\"",",","\"","e","x","p","e","c","t","e","d","_","r","e","s","u","l","t","\"",":","\"","P","a","s","s","\"",",","\"","i","n","p","u","t","\"",":","4","2","}","]">>
\* [{"test_case":"T2"}]
js_case_partial == <<"[","{","\"","t","e","s","t","_","c","a","s","e","\"",":","\"","T","2","\"","}","]">>
\* text that is no JSON: "[" and "json[]"
js_open_bracket == <<"[">>
js_word_array   == <<"j","s","o","n","[","]">>

\* json.loads on the texts the model draws from: each text with what it
\* decodes to
Decodings ==
    { [text |-> js_empty_array, value |-> Array(<<>>)],
      [text |-> js_number_array, value |-> Array(<<BareNumber>>)],
      [text |-> js_object, value |-> NonArrayValue("object")],
      [text |-> js_number, value |-> NonArrayValue("number")],
      [text |-> js_null, value |-> NonArrayValue("null")],
      [text |-> js_ticks, value |-> Array(<<BareString({})>>)],
      [text |-> js_empty_string, value |-> Array(<<BareString({})>>)],
      [text |-> js_case_null,
       value |-> Array(<<Object(RequiredKeys, "T1", txt_Pass, InNull)>>)],
      [text |-> js_case_42,
       value |-> Array(<<Object(RequiredKeys, "T1", txt_Pass, in_42)>>)],
      [text |-> js_case_partial,
       value |-> Array(<<Object({"test_case"}, "T2", <<>>, InNull)>>)] }

EndsWith(s, sub) ==
    Len(sub) <= Len(s) /\ SubSeq(s, Len(s) - Len(sub) + 1, Len(s)) = sub

\* [{"test_case":"T1","description":"d","expected_result":"Pass","input":"
js_case_open ==
    <<"[","{","\"","t","e","s","t","_","c","a","s","e","\"",":","\"","T","1","\"",",","\"","d","e","s","c","r","i","p","t","i","o","n","\"",":","\"","d","\"",",","\"","e","x","p","e","c","t","e","d","_","r","e","s","u","l","t","\"",":","\"","P","a","s","s","\"",",","\"","i","n","p","u","t","\"",":","\"">>
\* "}]
js_case_close == <<"\"","}","]">>

HexDigits == Digits \cup {"a","b","c","d","e","f","A","B","C","D","E","F"}

\* the character a \uXXXX escape stands for
UnicodeChar(hex) == IF hex = <<"0","0","4","1">> THEN "A" ELSE "U+"

\* the character a two-character escape stands for
EscapedChar(c) ==
    CASE c = "n" -> "\n" [] c = "t" -> "\t" [] c = "r" -> "\r" [] c = "f" -> "\f"
      [] OTHER -> c

\* the JSON decoder on what stands between the quotes of a string: the
\* backslash escapes replaced by their characters; not ok on an unescaped
\* quote, a control character, an escape JSON does not have, or a
\* backslash at the end
StringBody(b) ==
    LET scan[k \in 0..Len(b)] ==
            LET i == Len(b) + 1 - k IN
            IF k = 0 THEN [ok |-> TRUE, v |-> <<>>]
            ELSE IF b[i] = "\\"
                 THEN IF k >= 2 /\ b[i + 1] \in {"\"", "\\", "/", "n", "t", "r", "f"}
                      THEN [ok |-> scan[k - 2].ok,
                            v |-> <<EscapedChar(b[i + 1])>> \o scan[k - 2].v]
                      ELSE IF /\ k >= 6
                              /\ b[i + 1] = "u"
                              /\ AllIn(SubSeq(b, i + 2, i + 5), HexDigits)
                           THEN [ok |-> scan[k - 6].ok,
                                 v |-> <<UnicodeChar(SubSeq(b, i + 2, i + 5))>>
                                       \o scan[k - 6].v]
                           ELSE [ok |-> FALSE, v |-> <<>>]
                 ELSE IF b[i] \in {"\"", "\n", "\t", "\r", "\f"}
                      THEN [ok |-> FALSE, v |-> <<>>]
                      ELSE [ok |-> scan[k - 1].ok, v |-> <<b[i]>> \o scan[k - 1].v]
    IN  scan[Len(b)]

\* json.loads on the text of one case whose input is a string, and on the
\* text of a string alone
loads_string(s) ==
    IF /\ StartsWith(s, js_case_open) /\ EndsWith(s, js_case_close)
       /\ Len(s) >= Len(js_case_open) + Len(js_case_close)
       /\ StringBody(SubSeq(s, Len(js_case_open) + 1,
                            Len(s) - Len(js_case_close))).ok
    THEN Array(<<Object(RequiredKeys, "T1", txt_Pass,
                        InStr(StringBody(SubSeq(s, Len(js_case_open) + 1,
                                                Len(s) - Len(js_case_close))).v))>>)
    ELSE IF /\ Len(s) >= 2 /\ s[1] = "\"" /\ s[Len(s)] = "\""
            /\ StringBody(SubSeq(s, 2, Len(s) - 1)).ok
         THEN NonArrayValue("string")
         ELSE Undecodable

\* json.loads(cleaned_text): any other text raises JSONDecodeError
loads(s) ==
    IF \E d \in Decodings : d.text = s
    THEN (CHOOSE d \in Decodings : d.text = s).value
    ELSE loads_string(s)

\* the parser's result with whether it raised
parse_result(im, response, data_type) ==
    IF parse_propagates(response) # "none"
    THEN [raised |-> TRUE, none |-> TRUE, cases |-> <<>>]
    ELSE LET r == parse_llm_response(im, response, data_type)
         IN  [raised |-> FALSE, none |-> r.none, cases |-> r.cases]

\* _parse_llm_response(response_text, data_type) from the text on
parse_text(im, response, data_type) ==
    parse_result(im, loads(repaired_text(cleaned_text(response))), data_type)

Contents ==
    {js_empty_array, js_number_array, js_object, js_number, js_null, js_ticks,
     js_case_null, js_case_42, js_case_partial, js_open_bracket, js_word_array}

\* opening and closing markers with the whitespace around them
Fences ==
    { [open |-> <<Backtick,Backtick,Backtick,"j","s","o","n","\n">>, close |-> <<"\n",Backtick,Backtick,Backtick>>],
      [open |-> <<Backtick,Backtick,Backtick,"\n">>, close |-> <<"\n",Backtick,Backtick,Backtick>>],
      [open |-> <<Backtick,Backtick,Backtick,"j","s","o","n">>, close |-> <<Backtick,Backtick,Backtick>>],
      [open |-> <<Backtick,Backtick,Backtick>>, close |-> <<Backtick,Backtick,Backtick>>],
      [open |-> <<" "," ",Backtick,Backtick,Backtick,"j","s","o","n","\n","\n">>, close |-> <<"\n",Backtick,Backtick,Backtick,"\n">>],
      [open |-> <<"\t",Backtick,Backtick,Backtick,"\n">>, close |-> <<" ",Backtick,Backtick,Backtick," "," ">>] }

InitFence ==
    /\ impl \in {"app", "gtc"}
    /\ NotRun
    /\ candidate = Pending
    /\ candidate_type \in {dt_string, dt_datetime, dt_int64}
    /\ verdict = Pending
    /\ normalized = Pending
    /\ decoded = Pending
    /\ returned = Pending
    /\ response_text \in Contents
    /\ fence \in Fences
    /\ unfenced = Pending
    /\ fenced = Pending
    /\ NoPromptCall
    /\ NoCompletionCall

\* self._parse_llm_response(response_text, data_type), the content as it is
ParseUnfenced ==
    /\ unfenced = Pending
    /\ unfenced' = parse_text(impl, response_text, candidate_type)
    /\ UNCHANGED <<impl, use_blob_storage, run, candidate, candidate_type,
                   verdict, normalized, decoded, returned, response_text,
                   fence, fenced, prompting, completing>>

\* the same call, the content between the markers
ParseFenced ==
    /\ fenced = Pending
    /\ fenced' = parse_text(impl, fence.open \o response_text \o fence.close,
                            candidate_type)
    /\ UNCHANGED <<impl, use_blob_storage, run, candidate, candidate_type,
                   verdict, normalized, decoded, returned, response_text,
                   fence, unfenced, prompting, completing>>

NextFence ==
    \/ ParseUnfenced
    \/ ParseFenced

SpecFence == InitFence /\ [][NextFence]_vars

----------------------------------------------------------------------------
(* _generate_prompt called on its own *)

dt_timestamp == <<"t","i","m","e","s","t","a","m","p">>
dt_DATE      == <<"D","A","T","E">>

\* self.field_specific_rules["Date"]["valid_formats"]
valid_formats == << "%Y-%m-%d %H:%M:%S.%f" >>

\* whether the prompt gets the "For Date fields, use these formats only"
\* block.  app.py: 'if data_type == "Date":' and, inside it, the test for
\* "date" or "time" in data_type.lower(); generate_test_cases.py:
\* 'if data_type == "Date":'
lists_formats(im, data_type) ==
    IF im = "app"
    THEN /\ data_type = txt_Date
         /\ \/ Contains(Lower(data_type), txt_date)
            \/ Contains(Lower(data_type), txt_time)
    ELSE data_type = txt_Date

\* the returned prompt: the values the f-string puts into the text, in
\* their order, and the format lines of field_specific_info
generate_prompt(im, field_name, data_type, mandatory_field, primary_key, business_rules) ==
    [shown   |-> <<field_name, data_type, mandatory_field, primary_key,
                   business_rules>>,
     formats |-> IF lists_formats(im, data_type) THEN valid_formats ELSE <<>>]

PromptTypes ==
    {dt_string, dt_datetime, dt_int64, dt_object, txt_Date, txt_String,
     dt_DateTime, dt_datestring, dt_timestamp, dt_DATE, txt_time}

PromptInputs ==
    [field_name : {n_Field1, n_bc}, data_type : PromptTypes,
     mandatory_field : BOOLEAN, primary_key : BOOLEAN,
     business_rules : {"", "Must be unique"}]

InitPrompt ==
    /\ impl \in {"app", "gtc"}
    /\ NotRun
    /\ candidate = Pending
    /\ candidate_type = Pending
    /\ verdict = Pending
    /\ normalized = Pending
    /\ decoded = Pending
    /\ returned = Pending
    /\ NoTextCall
    /\ prompt_input \in PromptInputs
    /\ prompt = Pending
    /\ NoCompletionCall

\* prompt = self._generate_prompt(field_name, data_type, ...)
GeneratePrompt ==
    /\ prompt = Pending
    /\ prompt' = generate_prompt(impl, prompt_input.field_name,
                                 prompt_input.data_type,
                                 prompt_input.mandatory_field,
                                 prompt_input.primary_key,
                                 prompt_input.business_rules)
    /\ UNCHANGED <<impl, use_blob_storage, run, candidate, candidate_type,
                   verdict, normalized, decoded, returned, text, prompt_input,
                   completing>>

NextPrompt == GeneratePrompt

SpecPrompt == InitPrompt /\ [][NextPrompt]_vars

----------------------------------------------------------------------------
(* The backslash repair step, and _parse_llm_response on text with escapes *)

\* longest text the repair step is given on its own
MaxText == 4
\* most escape sequences and characters in the string of a completion
MaxTokens == 2

\* the characters of the texts the repair step is given
RepairAlphabet == {"\\", "\"", "n", "u", "\n"}
ShortTexts == UNION { [1..n -> RepairAlphabet] : n \in 0..MaxText }

\* what stands in the string: characters, escapes JSON has, an escaped
\* backslash, and one escape JSON does not have
Tokens ==
    { <<"a">>, <<"n">>, <<"\\","n">>, <<"\\","t">>, <<"\\","/">>,
      <<"\\","u","0","0","4","1">>, <<"\\","\\">>, <<"\\","\"">>, <<"\\","x">> }
RECURSIVE Joined(_)
Joined(ts) == IF ts = <<>> THEN <<>> ELSE Head(ts) \o Joined(Tail(ts))
StringBodies == { Joined(ts) : ts \in UNION { [1..n -> Tokens] : n \in 0..MaxTokens } }
\* completions that hold one case whose input is a string
EscapeTexts == { js_case_open \o b \o js_case_close : b \in StringBodies }

InitRepair ==
    /\ impl \in {"app", "gtc"}
    /\ NotRun
    /\ candidate = Pending
    /\ candidate_type \in {dt_string, dt_int64}
    /\ verdict = Pending
    /\ normalized = Pending
    /\ decoded = Pending
    /\ returned = Pending
    /\ response_text \in ShortTexts \cup EscapeTexts
    /\ fence = Pending
    /\ unfenced = Pending
    /\ fenced = Pending
    /\ NoPromptCall
    /\ NoCompletionCall

\* cleaned_text = re.sub(r'\\([^"\\])', r'\\\\\1', cleaned_text)
Repair ==
    /\ repaired = Pending
    /\ repaired' = [text |-> repaired_text(response_text)]
    /\ UNCHANGED <<impl, use_blob_storage, run, candidate, candidate_type,
                   verdict, normalized, decoded, returned, text, prompting,
                   completion_input, completion, attempt_result>>

\* self._parse_llm_response(response_text, data_type) on that text
ParseText ==
    /\ returned = Pending
    /\ returned' = parse_text(impl, response_text, candidate_type)
    /\ UNCHANGED <<impl, use_blob_storage, run, candidate, candidate_type,
                   verdict, normalized, decoded, text, prompting, completing>>

NextRepair ==
    \/ Repair
    \/ ParseText

SpecRepair == InitRepair /\ [][NextRepair]_vars

----------------------------------------------------------------------------
(* generate_test_cases_with_llm and the try block of the retry loop *)

\* what a completion call returns: None, or a text, which may be empty
NoneText == [none |-> TRUE, text |-> <<>>]
Text(t) == [none |-> FALSE, text |-> t]
\* bool(response_text)
TruthyText(v) == ~v.none /\ v.text # <<>>

\* the client object: a genai.GenerativeModel, an openai.AzureOpenAI, or
\* anything else
Clients == {"GenerativeModel", "AzureOpenAI", "other"}
ApiErrors == {"transport error", "authentication error", "model error"}
\* what the client's API call gives: it raises, or it returns a response (for
\* GenerativeModel with or without a text attribute; for AzureOpenAI with no
\* choice, or with a first choice whose content is None or a text)
ApiOutcomes(client) ==
    IF client = "GenerativeModel" THEN ApiErrors \cup {"no text attribute", "text"}
    ELSE IF client = "AzureOpenAI" THEN ApiErrors \cup {"no choices", "content None", "text"}
    ELSE {"not called"}
CompletionTexts ==
    {<<>>, js_empty_array, js_null, js_open_bracket, js_case_42, js_case_partial}
CompletionInputs ==
    { [client |-> c, api |-> a, text |-> t] :
        c \in Clients, a \in ApiErrors \cup {"no text attribute", "no choices",
                                             "content None", "text", "not called"},
        t \in CompletionTexts }

\* what the try block of generate_test_cases_with_llm raises, "none" if it
\* reaches a return
llm_exception(input) ==
    IF input.client = "other" THEN "ValueError"
    ELSE IF input.api \in ApiErrors THEN "APIError"
    ELSE IF input.api = "no choices" THEN "IndexError"
    ELSE "none"

\* a handler for ValueError only (variant for comparison)
llm_caught_value_errors(exc) == exc = "ValueError"
\* "except Exception as e" of generate_test_cases_with_llm
llm_caught(exc) == exc \in {"ValueError", "APIError", "IndexError"}

\* generate_test_cases_with_llm(llm_client, prompt, max_output_tokens)
generate_test_cases_with_llm(input) ==
    LET exc == llm_exception(input)
    IN  IF exc # "none"
        THEN [raised |-> ~llm_caught(exc), value |-> NoneText]
        ELSE IF input.api \in {"no text attribute", "content None"}
        THEN [raised |-> FALSE, value |-> NoneText]
        ELSE [raised |-> FALSE, value |-> Text(input.text)]

\* self._parse_llm_response(response_text, data_type) on what the
\* completion call returned
parse_value(im, v, data_type) ==
    IF v.none THEN parse_result(im, NoText, data_type)
    ELSE parse_text(im, v.text, data_type)

\* the try block of one retry iteration, from the completion call's return
\* on: whether _parse_llm_response was called, whether it returned None,
\* whether the attempt stored a case list, whether the except branch ran
try_block(im, result, data_type) ==
    IF result.raised
    THEN [parser_called |-> FALSE, returned_none |-> FALSE,
          succeeded |-> FALSE, raised |-> TRUE]
    ELSE IF im = "app" /\ ~TruthyText(result.value)
    THEN [parser_called |-> FALSE, returned_none |-> FALSE,
          succeeded |-> FALSE, raised |-> FALSE]
    ELSE LET r == parse_value(im, result.value, data_type)
         IN  [parser_called |-> TRUE, returned_none |-> r.none,
              succeeded |-> ~r.raised /\ Truthy(r), raised |-> r.raised]

InitCompletion ==
    /\ impl \in {"app", "gtc"}
    /\ NotRun
    /\ candidate = Pending
    /\ candidate_type \in {dt_string, dt_int64}
    /\ verdict = Pending
    /\ normalized = Pending
    /\ decoded = Pending
    /\ returned = Pending
    /\ NoTextCall
    /\ NoPromptCall
    /\ repaired = Pending
    /\ completion_input \in
         { i \in CompletionInputs :
             /\ i.api \in ApiOutcomes(i.client)
             /\ i.api # "text" => i.text = <<>> }
    /\ completion = Pending
    /\ attempt_result = Pending

\* response_text = llm.generate_test_cases_with_llm(llm_client, prompt, ...)
Complete ==
    /\ completion = Pending
    /\ completion' = generate_test_cases_with_llm(completion_input)
    /\ UNCHANGED <<impl, use_blob_storage, run, candidate, candidate_type,
                   verdict, normalized, decoded, returned, text, prompting,
                   repaired, completion_input, attempt_result>>

\* the rest of the try block, or its except branch
TryBlock ==
    /\ completion # Pending
    /\ attempt_result = Pending
    /\ attempt_result' = try_block(impl, completion, candidate_type)
    /\ UNCHANGED <<impl, use_blob_storage, run, candidate, candidate_type,
                   verdict, normalized, decoded, returned, text, prompting,
                   repaired, completion_input, completion>>

NextCompletion ==
    \/ Complete
    \/ TryBlock

SpecCompletion == InitCompletion /\ [][NextCompletion]_vars

----------------------------------------------------------------------------
(* Vocabulary of the properties *)

NPairs == Len(PairsOf[rules])
PairKey(p) == PairsOf[rules][p].key
PairType(p) == PairsOf[rules][p].data_type

\* completion calls made for pair p
CallsFor(p) == Cardinality({ i \in 1..Len(calls) : calls[i].pair = p })

\* the retry loop of pair p was entered (its prompt was built)
Entered(p) == \E i \in 1..Len(prompts) : prompts[i] = p

\* the field loop has gone past pair p
Finished(p) == p < idx

\* pair p made three calls and none gave an accepted case
Exhausted(p) == CallsFor(p) = 3 /\ first_accepted[p] = <<>>

\* the collaborator raised or returned no text on three calls for pair p
FailedThrice(p) ==
    /\ CallsFor(p) = 3
    /\ \A i \in 1..Len(calls) : calls[i].pair = p => ~calls[i].text

\* a list stored by an attempt of pair p is in the result
StoredBy(p) == \E i \in 1..Len(all_test_cases) : all_test_cases[i].by = p

\* the key of pair p is in the result only through another pair that shares it
OnlyThroughAnother(p) ==
    HasKey(all_test_cases, PairKey(p)) =>
        \E q \in 1..NPairs : q # p /\ PairKey(q) = PairKey(p) /\ StoredBy(q)

LoadFailed == source \in {"missing", "unreadable", "unparseable"}

\* every completion call so far was the first of its field and succeeded
FirstCallsSucceeded == \A i \in 1..Len(calls) : calls[i].ok

RECURSIVE IsSubsequence(_, _)
IsSubsequence(a, b) ==
    IF a = <<>> THEN TRUE
    ELSE IF b = <<>> THEN FALSE
    ELSE IF Head(a) = Head(b) THEN IsSubsequence(Tail(a), Tail(b))
    ELSE IsSubsequence(a, Tail(b))

KeysOf(m) == [i \in 1..Len(m) |-> m[i].key]

----------------------------------------------------------------------------
(* C1 *)

\* C1, as stated: every field the loop has gone past got at least one and at
\* most three completion calls, exactly three when none of its attempts gave
\* an accepted case, and the run makes at most 3 calls per field in total.
C1_EveryFieldCalled ==
    /\ \A p \in 1..NPairs : CallsFor(p) <= 3
    /\ \A p \in 1..NPairs : Finished(p) => CallsFor(p) >= 1
    /\ \A p \in 1..NPairs :
         Finished(p) /\ CallsFor(p) >= 1 /\ first_accepted[p] = <<>> => CallsFor(p) = 3
    /\ Len(calls) <= 3 * NPairs

\* C1, amended: every field whose retry loop is entered gets at least one and
\* at most three completion calls, exactly three when all its attempts fail,
\* every failed attempt (whatever its kind) uses up exactly one; a field gets
\* no call only when generate_test_cases.py skips it because its composite key
\* is already stored; the run makes at most 3 calls per field in total.
C1_RetryBudget ==
    /\ \A p \in 1..NPairs : CallsFor(p) <= 3
    /\ \A p \in 1..NPairs : Finished(p) /\ Entered(p) => CallsFor(p) >= 1
    /\ \A p \in 1..NPairs :
         Finished(p) /\ ~Entered(p) =>
            impl = "gtc" /\ HasKey(all_test_cases, PairKey(p)) /\ CallsFor(p) = 0
    /\ \A p \in 1..NPairs :
         Finished(p) /\ Entered(p) /\ first_accepted[p] = <<>> => CallsFor(p) = 3
    /\ pc = "attempt" => CallsFor(idx) = attempt /\ attempt < 3
    /\ Len(calls) <= 3 * NPairs

\* a field left after three failed calls, the next one about to start
C1_Witness ==
    /\ pc = "next_field" /\ idx = 2
    /\ Exhausted(1)
    /\ Len(calls) = 3

----------------------------------------------------------------------------
(* C2 *)

\* C2: for every field with a successful attempt, the list stored under its
\* composite key is the list of its first successful attempt, and no
\* completion call is made for the field after that attempt.
C2_FirstSuccessStored ==
    \A p \in 1..NPairs :
        first_accepted[p] # <<>> =>
            /\ HasKey(all_test_cases, PairKey(p))
            /\ Lookup(all_test_cases, PairKey(p)) = first_accepted[p]
            /\ \A i, j \in 1..Len(calls) :
                  i < j /\ calls[i].pair = p /\ calls[i].ok => calls[j].pair # p

----------------------------------------------------------------------------
(* C3 *)

\* C3, as stated: when the collaborator raised or returned no text on all
\* three attempts of a field, the run ends with that field's composite key
\* absent from the result, every field visited, and without raising.
C3_KeyAbsentNoRaise ==
    \A p \in 1..NPairs :
        FailedThrice(p) /\ pc = "done" =>
            /\ ~HasKey(all_test_cases, PairKey(p))
            /\ idx = NPairs + 1
            /\ outcome = "returned"

\* C3, amended: when the collaborator raised or returned no text on all three
\* attempts of a field, that field stores no list (its composite key is in
\* the result only if another field with the same composite key stored one),
\* the loop goes on with the next field without raising, and the loop ends
\* only after the last field unless something other than the exhausted field
\* raised.
C3_ExhaustedFieldContained ==
    \A p \in 1..NPairs :
        FailedThrice(p) =>
            /\ ~StoredBy(p)
            /\ OnlyThroughAnother(p)
            /\ idx > p
            /\ (pc = "next_field" /\ idx = p + 1) => outcome = "running"
            /\ (raise_cause = "none" /\ pc \in {"save", "summary", "done"})
                  => idx = NPairs + 1

\* the first field failed three times without text, the second one stored
\* a list under the key the two share, and the run returned
C3_Witness ==
    /\ rules = RulesDotted
    /\ FailedThrice(1)
    /\ StoredBy(2)
    /\ pc = "done" /\ outcome = "returned"

----------------------------------------------------------------------------
(* C4 *)

\* the entries of the result are non-empty and hold only cases that
\* _validate_test_case accepts for the data type of the field that stored
\* them, with expected_result "Pass" or "Fail"
EntriesValid ==
    \A i \in 1..Len(all_test_cases) :
        /\ all_test_cases[i].cases # <<>>
        /\ \A j \in 1..Len(all_test_cases[i].cases) :
             LET case == all_test_cases[i].cases[j] IN
             /\ validate_test_case(impl, case, PairType(all_test_cases[i].by)).ok
             /\ case.expected_result \in {txt_Pass, txt_Fail}

\* C4, as stated: every key of the result maps to a non-empty list of cases
\* that passed validation and have expected_result "Pass" or "Fail", and the
\* composite key of a field whose three attempts gave no accepted case is
\* never a key of the result.
C4_ExhaustedKeyAbsent ==
    /\ EntriesValid
    /\ \A p \in 1..NPairs : Exhausted(p) => ~HasKey(all_test_cases, PairKey(p))

\* C4, amended: every key of the result maps to a non-empty list of cases
\* that passed validation and have expected_result "Pass" or "Fail", and a
\* field whose three attempts gave no accepted case stores nothing: its
\* composite key is a key of the result only if another field with the same
\* composite key stored a list.
C4_ResultEntriesValid ==
    /\ EntriesValid
    /\ \A p \in 1..NPairs : Exhausted(p) => ~StoredBy(p) /\ OnlyThroughAnother(p)

\* a result with a two-case list, after another field was exhausted
C4_Witness ==
    /\ \E i \in 1..Len(all_test_cases) : Len(all_test_cases[i].cases) = 2
    /\ \E p \in 1..NPairs : Exhausted(p)

----------------------------------------------------------------------------
(* C5 *)

\* C5: once a composite key is in the result its list is never replaced or
\* changed and the key is never removed.
C5_WriteOnce ==
    [][\A i \in 1..Len(all_test_cases) :
          /\ i <= Len(all_test_cases')
          /\ all_test_cases'[i].key = all_test_cases[i].key
          /\ all_test_cases'[i].cases = all_test_cases[i].cases]_vars

----------------------------------------------------------------------------
(* C6 *)

\* C6: the completion calls are made field by field in iteration order (the
\* calls of a field are consecutive, its attempts in order, and none is made
\* for a field the loop has not reached), and the keys of the result are in
\* iteration order.
C6_SequentialOrder ==
    /\ \A i, j \in 1..Len(calls) : i < j => calls[i].pair <= calls[j].pair
    /\ \A i \in 1..Len(calls) :
         /\ calls[i].pair <= idx
         /\ calls[i].attempt =
               Cardinality({ j \in 1..(i - 1) : calls[j].pair = calls[i].pair })
    /\ IsSubsequence(KeysOf(all_test_cases), KeysOf(PairsOf[rules]))

\* both fields of the sample rule set stored, one of them after a retry
C6_Witness ==
    /\ rules = RulesSample
    /\ Len(all_test_cases) = 2
    /\ Len(calls) > 2

----------------------------------------------------------------------------
(* C7 *)

\* C7, as stated: when every first call succeeded, the saved result was
\* produced by as many calls as there are fields, holds every field's
\* composite key with exactly the cases of that field's own call, and holds
\* no other key.
C7_OneCallPerField ==
    (json_artifact.written /\ FirstCallsSucceeded) =>
        /\ Len(calls) = NPairs
        /\ \A p \in 1..NPairs :
             /\ HasKey(json_artifact.content, PairKey(p))
             /\ Lookup(json_artifact.content, PairKey(p)) = first_accepted[p]
        /\ \A i \in 1..Len(json_artifact.content) :
             \E p \in 1..NPairs : PairKey(p) = json_artifact.content[i].key

\* C7, amended: when every first call succeeded, the saved result was
\* produced by one call per field whose retry loop ran (every field in
\* app.py; in generate_test_cases.py one per distinct composite key), holds
\* every field's composite key, holds no other key, and the cases under a key
\* are exactly the cases of the call of one field with that composite key.
C7_FirstCallsStored ==
    (json_artifact.written /\ FirstCallsSucceeded) =>
        /\ Len(calls) = Len(prompts)
        /\ impl = "app" => Len(calls) = NPairs
        /\ impl = "gtc" =>
              Len(calls) = Cardinality({ PairKey(p) : p \in 1..NPairs })
        /\ \A p \in 1..NPairs : HasKey(json_artifact.content, PairKey(p))
        /\ \A i \in 1..Len(json_artifact.content) :
             \E p \in 1..NPairs :
                /\ PairKey(p) = json_artifact.content[i].key
                /\ Entered(p)
                /\ json_artifact.content[i].cases = first_accepted[p]

\* the sample rule set saved after one successful call per field
C7_Witness ==
    /\ rules = RulesSample
    /\ json_artifact.written /\ FirstCallsSucceeded
    /\ Len(calls) = 2 /\ Len(json_artifact.content) = 2

----------------------------------------------------------------------------
(* C8 *)

\* C8: nothing that fails while one field (or one schema entry) is handled
\* raises out of generate_test_cases: when the run raises, it is the
\* configuration, the client, the rule source, or the sink that failed.
C8_FieldFailuresContained ==
    outcome = "raised" =>
        raise_cause \in {"config", "client_init", "source_load", "sink_write", "summary"}

----------------------------------------------------------------------------
(* C9 *)

\* C9: when the rule source is missing, unreadable or unparseable the run is
\* over with no prompt built, no completion call made and no artifact
\* written.
C9_LoadFailureAborts ==
    LoadFailed =>
        /\ pc = "done"
        /\ prompts = <<>>
        /\ calls = <<>>
        /\ all_test_cases = <<>>
        /\ ~json_artifact.written
        /\ ~csv_artifact.written

\* a run that ended on an unparseable rule source
C9_Witness == source = "unparseable" /\ pc = "done" /\ generate_invoked

----------------------------------------------------------------------------
(* C10 *)

\* C10: a run whose rule source could not be loaded, or whose client could
\* not be initialised, ends with main raising; in the second case
\* generate_test_cases was never invoked.
C10_FatalSurfaced ==
    /\ (pc = "done" /\ LoadFailed) => outcome = "raised"
    /\ raise_cause = "client_init" => outcome = "raised" /\ ~generate_invoked

----------------------------------------------------------------------------
(* Vocabulary of the properties of the validator and the parser *)

\* the validator call has returned or raised
Validated == verdict # Pending

\* the candidate is a JSON object
IsObject == candidate.kind = "obj"

\* the candidate has the four keys and expected_result exactly "Pass" or "Fail"
PassesUniversal ==
    /\ IsObject
    /\ RequiredKeys \subseteq candidate.keys
    /\ candidate.expected_result \in {txt_Pass, txt_Fail}

\* the data type contains "date" or "time", whatever the case of its letters
DateLike(dt) == Contains(Lower(dt), txt_date) \/ Contains(Lower(dt), txt_time)

\* the data type contains "string" or "object", whatever the case of its letters
StringLike(dt) == Contains(Lower(dt), txt_string) \/ Contains(Lower(dt), txt_object)

InvalidDateFormat == "Invalid date format. Expected formats: ['%Y-%m-%d %H:%M:%S.%f']"

\* the text has the shape dddd-dd-dd dd:dd:dd.dddddd
MatchesPattern(t) ==
    /\ Len(t) = 26
    /\ \A i \in 1..26 :
         IF i \in {5, 8} THEN t[i] = "-"
         ELSE IF i = 11 THEN t[i] = " "
         ELSE IF i \in {14, 17} THEN t[i] = ":"
         ELSE IF i = 20 THEN t[i] = "."
         ELSE t[i] \in Digits

\* a text of that shape names a day of the calendar and a time of the day
RealDateTime(t) ==
    LET y == NumVal(SubSeq(t, 1, 4))
        m == NumVal(SubSeq(t, 6, 7))
        d == NumVal(SubSeq(t, 9, 10))
    IN  /\ y >= 1
        /\ m \in 1..12
        /\ d >= 1 /\ d <= DaysInMonth(y, m)
        /\ NumVal(SubSeq(t, 12, 13)) <= 23
        /\ NumVal(SubSeq(t, 15, 16)) <= 59
        /\ NumVal(SubSeq(t, 18, 19)) <= 59

\* number of places of t that hold c
CountOf(t, c) == Cardinality({ i \in 1..Len(t) : t[i] = c })

\* what every text strptime takes has: four digits and "-" first, two "-",
\* two ":", one ".", and one to six digits after the "."
LooseShape(t) ==
    /\ Len(t) >= 15
    /\ \A i \in 1..4 : t[i] \in Digits
    /\ t[5] = "-"
    /\ CountOf(t, "-") = 2 /\ CountOf(t, ":") = 2 /\ CountOf(t, ".") = 1
    /\ LET dot == CHOOSE i \in 1..Len(t) : t[i] = "."
       IN  /\ Len(t) - dot \in 1..6
           /\ \A i \in (dot + 1)..Len(t) : t[i] \in Digits

\* the version at hand runs the date check for this data type
DateChecked ==
    \/ impl = "app" /\ DateLike(candidate_type)
    \/ impl = "gtc" /\ candidate_type = txt_Date

----------------------------------------------------------------------------
(* C11 *)

\* C11: for every data type, a candidate object lacking one of the four keys
\* is rejected with "Missing required fields" (also when its expected_result
\* is invalid); one that has them and whose expected_result is not exactly
\* "Pass" or "Fail" is rejected with "Invalid expected_result value"; a
\* reason of the type-specific checks is given only after both checks passed.
C11_UniversalChecksInOrder ==
    (Validated /\ IsObject) =>
        /\ ~verdict.raised
        /\ ~(RequiredKeys \subseteq candidate.keys) =>
              ~verdict.ok /\ verdict.msg = "Missing required fields"
        /\ (RequiredKeys \subseteq candidate.keys
              /\ candidate.expected_result \notin {txt_Pass, txt_Fail}) =>
              ~verdict.ok /\ verdict.msg = "Invalid expected_result value"
        /\ verdict.msg \notin {"", "Missing required fields",
                               "Invalid expected_result value"} => PassesUniversal

\* a candidate without "input" and with expected_result "Maybe", rejected
\* for the missing key
C11_Witness ==
    /\ Validated /\ IsObject
    /\ "input" \notin candidate.keys
    /\ candidate.expected_result = txt_Maybe
    /\ verdict.msg = "Missing required fields"

----------------------------------------------------------------------------
(* C12 *)

----------------------------------------------------------------------------
(* C13 *)

\* C13, as stated: for a date-like data type every candidate whose input is
\* null is accepted, whatever its other fields.
C13_NullAlwaysAccepted ==
    (Validated /\ IsObject /\ DateLike(candidate_type)
       /\ "input" \in candidate.keys /\ candidate.input = InNull) => verdict.ok

\* C13, amended: for a date-like data type every candidate that passes the
\* universal checks and whose input is null is accepted, whatever its
\* expected_result ("Pass" or "Fail").
C13_NullAcceptedAfterUniversal ==
    (Validated /\ PassesUniversal /\ DateLike(candidate_type)
       /\ candidate.input = InNull) => verdict.ok /\ verdict.msg = ""

\* null with expected_result "Pass" accepted for datetime64[ns]
C13_Witness ==
    /\ Validated /\ PassesUniversal
    /\ impl = "app" /\ candidate_type = dt_datetime
    /\ candidate.input = InNull /\ candidate.expected_result = txt_Pass
    /\ verdict.ok

----------------------------------------------------------------------------
(* C14 *)

\* C14: for a string-like data type and a candidate that passes the
\* universal checks, the candidate is rejected if and only if its input is
\* not null, not a string, and its expected_result is "Pass".
C14_StringCheck ==
    (Validated /\ PassesUniversal
       /\ StringLike(candidate_type) /\ ~DateLike(candidate_type)) =>
        (~verdict.ok <=>
            /\ candidate.input.t \notin {"null", "str"}
            /\ candidate.expected_result = txt_Pass)

----------------------------------------------------------------------------
(* C15 *)

\* C15: for a candidate that passes the universal checks, the date check
\* decides when the data type contains "date" or "time" (in any case of the
\* letters, also when it contains "string" or "object" as well), the string
\* check decides when it contains "string" or "object", and for every other
\* data type the candidate is accepted whatever its input.
C15_SubstringClassification ==
    (Validated /\ PassesUniversal) =>
        LET given == [ok |-> verdict.ok, msg |-> verdict.msg]
        IN  /\ DateLike(candidate_type) => given = validate_date_format(candidate)
            /\ (StringLike(candidate_type) /\ ~DateLike(candidate_type)) =>
                  given = validate_string_format(candidate)
            /\ (~StringLike(candidate_type) /\ ~DateLike(candidate_type)) =>
                  given = Accept

----------------------------------------------------------------------------
(* C16 *)

\* the parser call has returned or raised
ParseDone == returned # Pending

PassSpellings == {txt_Pass, txt_PASS, txt_pass}
FailSpellings == {txt_Fail, txt_FAIL, txt_fail}

\* the element as it would be accepted: expected_result in canonical spelling
Canonical(e) ==
    [e EXCEPT !.expected_result =
        IF e.expected_result \in PassSpellings THEN txt_Pass ELSE txt_Fail]

\* the returned list holds the case c
Returns(c) == \E j \in 1..Len(returned.cases) : returned.cases[j] = c

\* C16, as stated: when the parser returns a list, every element object
\* whose expected_result is a case variant of "pass" or "fail" and that is
\* valid otherwise is in the list with the canonical spelling, and no
\* element with any other expected_result is in the list.
C16_CaseVariantsAccepted ==
    (ParseDone /\ ~returned.raised /\ ~returned.none) =>
        \A i \in 1..Len(decoded.elems) :
            LET e == decoded.elems[i] IN
            /\ (e.kind = "obj"
                  /\ e.expected_result \in PassSpellings \cup FailSpellings
                  /\ validate_test_case(impl, Canonical(e), candidate_type).ok)
                  => Returns(Canonical(e))
            /\ (e.kind = "obj"
                  /\ e.expected_result \notin PassSpellings \cup FailSpellings)
                  => \A j \in 1..Len(returned.cases) :
                        returned.cases[j].test_case # e.test_case

\* C16, amended: every case the parser returns has expected_result exactly
\* "Pass" or "Fail" and is an element of the array as it was decoded (the
\* normalisation changes nothing); an element object whose expected_result is
\* spelled in any other way, a case variant such as "PASS" or "pass"
\* included, is rejected and is not in the list, neither normalised nor
\* coerced to "Fail".
C16_ExactSpellingOnly ==
    (ParseDone /\ ~returned.raised /\ ~returned.none) =>
        /\ \A j \in 1..Len(returned.cases) :
             /\ returned.cases[j].expected_result \in {txt_Pass, txt_Fail}
             /\ \E i \in 1..Len(decoded.elems) : decoded.elems[i] = returned.cases[j]
        /\ \A i \in 1..Len(decoded.elems) :
             (decoded.elems[i].kind = "obj"
                /\ decoded.elems[i].expected_result \notin {txt_Pass, txt_Fail})
             => \A j \in 1..Len(returned.cases) :
                   returned.cases[j].test_case # decoded.elems[i].test_case

\* an array with a "Pass" case and a "pass" case: only the first is returned
C16_Witness ==
    /\ ParseDone /\ ~returned.none
    /\ Len(decoded.elems) = 2
    /\ decoded.elems[1].expected_result = txt_Pass
    /\ decoded.elems[2].expected_result = txt_pass
    /\ decoded.elems[2].kind = "obj"
    /\ Len(returned.cases) = 1

----------------------------------------------------------------------------
(* C17 *)

\* C17: the normalisation step gives "Pass" for every case variant of "pass"
\* and "Fail" for every case variant of "fail", and applying it to its own
\* result changes nothing.
C17_NormalizeIdempotent ==
    normalized # Pending =>
        /\ candidate.expected_result \in PassSpellings => normalized.once = txt_Pass
        /\ candidate.expected_result \in FailSpellings => normalized.once = txt_Fail
        /\ normalized.twice = normalized.once

\* "PASS" normalised to "Pass"
C17_Witness ==
    /\ normalized # Pending
    /\ candidate.expected_result = txt_PASS
    /\ normalized.once = txt_Pass

----------------------------------------------------------------------------
(* C18 *)

\* C18: _parse_llm_response raises nothing to its caller, whatever the text
\* and whatever it decodes to; for text that does not decode it returns None.
C18_ParserNeverRaises ==
    ParseDone =>
        /\ ~returned.raised
        /\ decoded.kind = "undecodable" => returned.none

\* undecodable text answered with None
C18_Witness ==
    /\ ParseDone
    /\ decoded = Undecodable
    /\ returned.none /\ ~returned.raised

----------------------------------------------------------------------------
(* C19 *)

\* C19: _parse_llm_response returns a list (possibly empty) exactly when the
\* text decodes to a JSON array, and None when it decodes to anything else.
C19_ListIffArray ==
    ParseDone =>
        /\ ~returned.raised
        /\ ~returned.none <=> decoded.kind = "array"

----------------------------------------------------------------------------
(* C20 *)

\* the element is an object that _validate_test_case accepts
ValidElement(e) ==
    e.kind = "obj" /\ validate_test_case(impl, e, candidate_type).ok

\* C20: for every decoded array, whatever the types of its elements, the
\* parser returns exactly the elements that pass validation, in their
\* order; an element that fails validation costs no other element and
\* never turns the result into None.
C20_InvalidElementsDropped ==
    (ParseDone /\ decoded.kind = "array") =>
        /\ ~returned.raised
        /\ ~returned.none
        /\ returned.cases = SelectSeq(decoded.elems, ValidElement)

----------------------------------------------------------------------------
(* C21 *)

\* the content is JSON: json.loads takes it as it stands
IsJson(t) == \E d \in Decodings : d.text = t

\* C21: for any JSON content and data type, _parse_llm_response returns for
\* the content between code-fence markers ("```json" or "```" before it,
\* "```" after it, with or without whitespace around them) what it returns
\* for the content as it is
C21_FencesTransparent ==
    (unfenced # Pending /\ fenced # Pending /\ IsJson(response_text)) =>
        fenced = unfenced

\* both calls were made on JSON content between "```json" markers and both
\* returned the one accepted case of the content
C21_Witness ==
    /\ unfenced # Pending /\ fenced # Pending
    /\ response_text = js_case_null
    /\ StartsWith(fence.open, txt_fence_json)
    /\ ~fenced.raised /\ ~fenced.none /\ Len(fenced.cases) = 1
    /\ fenced = unfenced

----------------------------------------------------------------------------
(* C22 *)

\* C22: an attempt whose array holds at least one case the validator accepts,
\* whatever else the array holds, succeeds (the field's key is stored) and
\* the field gets no further attempt; an attempt fails only when its response
\* holds no accepted case
C22_RejectedCaseNotFatal ==
    (calls # <<>> /\ last_response.accepts) =>
        /\ calls[Len(calls)].ok
        /\ ~(pc = "attempt" /\ idx = calls[Len(calls)].pair)

----------------------------------------------------------------------------
(* Vocabulary of the properties of the sink *)

\* the number of cases the result holds under its first i keys
CasesUnder(i) == total_cases(SubSeq(all_test_cases, 1, i))

\* the row of the tabular artifact written for case j of key i
RowOf(i, j) == csv_artifact.content[1 + CasesUnder(i - 1) + j]

HasDot(t) == \E k \in 1..Len(t) : t[k] = "."

----------------------------------------------------------------------------
(* C23 *)

\* C23: the tabular export is the header row SchemaName, FieldName, Test Case,
\* Description, Expected Result, Input followed by exactly one data row per
\* case of the result, in key order and then case order, each row giving the
\* six columns in that order, a null input written as NULL and any other
\* input as its text
C23_TabularExport ==
    csv_artifact.written =>
        /\ csv_artifact.content[1] =
              <<"SchemaName", "FieldName", "Test Case", "Description",
                "Expected Result", "Input">>
        /\ Len(csv_artifact.content) = 1 + CasesUnder(Len(all_test_cases))
        /\ \A i \in 1..Len(all_test_cases) :
           \A j \in 1..Len(all_test_cases[i].cases) :
              LET case == all_test_cases[i].cases[j] IN
              /\ Len(RowOf(i, j)) = 6
              /\ RowOf(i, j)[1] \o <<".">> \o RowOf(i, j)[2] = all_test_cases[i].key
              /\ RowOf(i, j)[3] = case.test_case
              /\ RowOf(i, j)[4] = case.description
              /\ RowOf(i, j)[5] = case.expected_result
              /\ RowOf(i, j)[6] = IF case.input.t = "null"
                                  THEN <<"N","U","L","L">>
                                  ELSE case.input.v

\* a tabular artifact was written for two keys, with a row for a null input
\* and a row for another input
C23_Witness ==
    /\ csv_artifact.written
    /\ Len(all_test_cases) = 2
    /\ \E r \in 2..Len(csv_artifact.content) :
         csv_artifact.content[r][6] = <<"N","U","L","L">>
    /\ \E r \in 2..Len(csv_artifact.content) :
         csv_artifact.content[r][6] = <<"h","e","l","l","o">>

----------------------------------------------------------------------------
(* C24 *)

\* C24: the SchemaName and FieldName columns come from splitting the
\* composite key at its first "." only: for every (schema, field) pair whose
\* schema name holds no ".", the two columns are the schema name and the
\* field name as the rule set gives them, also when the field name holds "."
C24_SplitAtFirstDot ==
    csv_artifact.written =>
        \A i \in 1..Len(all_test_cases) :
            LET p == PairsOf[rules][all_test_cases[i].by] IN
            ~HasDot(p.parent_field) =>
                \A j \in 1..Len(all_test_cases[i].cases) :
                    /\ RowOf(i, j)[1] = p.parent_field
                    /\ RowOf(i, j)[2] = p.field_name

\* a tabular artifact was written with the rows of a field whose name holds
\* a "." and whose schema name holds none
C24_Witness ==
    /\ csv_artifact.written
    /\ \E i \in 1..Len(all_test_cases) :
         LET p == PairsOf[rules][all_test_cases[i].by] IN
         /\ ~HasDot(p.parent_field)
         /\ HasDot(p.field_name)
         /\ RowOf(i, 1)[1] = <<"A">>
         /\ RowOf(i, 1)[2] = <<"b", ".", "c">>

----------------------------------------------------------------------------
(* C25 *)

\* C25: when the result mapping is empty at save time, no tabular artifact
\* is written in either storage mode, not even one with the header alone,
\* and what stood at its target is left as it was, while the record-format
\* write is made all the same, with the empty mapping
C25_EmptyResultNoTable ==
    (json_artifact.status # "not tried" /\ all_test_cases = <<>>) =>
        /\ ~csv_artifact.written
        /\ csv_artifact.status \in {"skipped", "not tried"}
        /\ csv_artifact.prior \in {"none", "in place"}
        /\ json_artifact.status \in {"written", "failed"}
        /\ json_artifact.written => json_artifact.content = <<>>

\* the record-format artifact was written with the empty mapping and the
\* tabular export was skipped
C25_Witness ==
    /\ all_test_cases = <<>>
    /\ json_artifact.written /\ json_artifact.content = <<>>
    /\ csv_artifact.status = "skipped" /\ ~csv_artifact.written

----------------------------------------------------------------------------
(* C26 *)

\* C26: in both storage modes, a record-format write that fails is surfaced
\* to the caller of the run, which fails; a tabular-format write that fails
\* after the record-format write went through is only logged: the sink
\* raises nothing and the run goes on to its summary
C26_SinkFailures ==
    /\ json_artifact.status = "failed" =>
           outcome = "raised" /\ raise_cause = "sink_write"
    /\ (json_artifact.status = "written" /\ csv_artifact.status = "failed") =>
           /\ raise_cause # "sink_write"
           /\ pc \in {"summary", "done"}

----------------------------------------------------------------------------
(* C27 *)

\* C27: an artifact of either format that stands at the write target, in
\* either storage mode, is kept under a timestamp-suffixed name before the
\* new content is written; it is never overwritten where it stands, also not
\* when the archiving rename fails
C27_PriorPreserved ==
    /\ json_artifact.prior # "lost"
    /\ csv_artifact.prior # "lost"
    /\ (json_artifact.written /\ json_artifact.prior # "none") =>
           json_artifact.prior = "archived"
    /\ (csv_artifact.written /\ csv_artifact.prior # "none") =>
           csv_artifact.prior = "archived"

----------------------------------------------------------------------------
(* C28 *)

\* C28: the run summary reports the number of keys of the final result
\* (the fields with at least one accepted case) and the sum of the lengths
\* of its lists (the accepted cases), both computed from the result of this
\* run, and a mean of 0 when the result has no key
C28_SummaryFromResult ==
    summary.logged =>
        /\ summary.fields = Len(all_test_cases)
        /\ summary.cases = CasesUnder(Len(all_test_cases))
        /\ Len(all_test_cases) = 0 => summary.avg.num = 0

----------------------------------------------------------------------------
(* C29 *)

\* C29: every case of the record-format artifact has exactly the four keys
\* test_case, description, expected_result and input, also when the object
\* of the response carried other keys as well
C29_ExactlyFourKeys ==
    json_artifact.written =>
        \A i \in 1..Len(json_artifact.content) :
        \A j \in 1..Len(json_artifact.content[i].cases) :
            json_artifact.content[i].cases[j].keys =
                {"test_case", "description", "expected_result", "input"}

----------------------------------------------------------------------------
(* C30 *)

\* C30: _generate_prompt appends the list of the accepted date format to the
\* prompt for every data_type that holds "date" or "time", whatever the case
\* of its letters ("datetime64[ns]", "Date", "timestamp"), and for no other
\* data_type; all five arguments appear in the returned prompt
C30_PromptListsDateFormat ==
    prompt # Pending =>
        /\ prompt.formats # <<>> <=> DateLike(prompt_input.data_type)
        /\ prompt.shown = <<prompt_input.field_name, prompt_input.data_type,
                            prompt_input.mandatory_field,
                            prompt_input.primary_key,
                            prompt_input.business_rules>>

----------------------------------------------------------------------------
(* C31 *)

\* the states of a field as the statement defines them, by the key
KeyPresent(p) == HasKey(all_test_cases, PairKey(p))
ThreeFailedKeyAbsent(p) ==
    /\ CallsFor(p) = 3
    /\ \A i \in 1..Len(calls) : calls[i].pair = p => ~calls[i].ok
    /\ ~KeyPresent(p)

\* the states of a field by what its own attempts did
FieldSucceeded(p) == first_accepted[p] # <<>>
FieldSkipped(p) == Finished(p) /\ ~Entered(p)
TerminalStates(p) ==
    {s \in {"Succeeded", "Exhausted", "Skipped"} :
        \/ s = "Succeeded" /\ FieldSucceeded(p)
        \/ s = "Exhausted" /\ Exhausted(p)
        \/ s = "Skipped" /\ FieldSkipped(p)}

----------------------------------------------------------------------------
(* C32 *)

\* the backslashes of t that stand immediately before a character other
\* than a double quote or a backslash
BeforeOther(t) ==
    { i \in 1..Len(t) : t[i] = "\\" /\ i < Len(t) /\ t[i + 1] \notin {"\"", "\\"} }

\* C32: the repair step writes twice every backslash that stands immediately
\* before a character other than a double quote or a backslash and changes
\* nothing else: a backslash before a double quote or a backslash, a
\* backslash at the end of the text and every other character are in the
\* result once, in their order
C32_RepairDoublesLoneBackslashes ==
    repaired # Pending =>
        LET t == response_text
            shift(i) == Cardinality({ j \in BeforeOther(t) : j < i })
            r == repaired.text
        IN  /\ Len(r) = Len(t) + Cardinality(BeforeOther(t))
            /\ \A i \in 1..Len(t) :
                 /\ r[i + shift(i)] = t[i]
                 /\ i \in BeforeOther(t) => r[i + shift(i) + 1] = "\\"
                 /\ i \notin BeforeOther(t) /\ i < Len(t) =>
                        r[i + shift(i) + 1] = t[i + 1]

\* the step was given \n\" and doubled the first backslash only, and was
\* given a text that ends with a backslash and left it as it was
C32_Witness ==
    /\ repaired # Pending
    /\ \/ /\ response_text = <<"\\", "n", "\\", "\"">>
          /\ repaired.text = <<"\\", "\\", "n", "\\", "\"">>
       \/ /\ response_text = <<"n", "\\">>
          /\ repaired.text = <<"n", "\\">>

----------------------------------------------------------------------------
(* C33 *)

\* C33: every field that ends Exhausted, whatever made its three attempts
\* fail, has an error entry "Failed to generate test cases for <field>" in
\* the log, and no field that succeeded has one
C33_ExhaustionLogged ==
    \A p \in 1..NPairs :
        /\ Exhausted(p) => p \in failure_logged
        /\ FieldSucceeded(p) => p \notin failure_logged

----------------------------------------------------------------------------
(* C36 *)

\* C36: the cases _parse_llm_response returns are elements of the decoded
\* array as they were decoded, in their order: each has the expected_result
\* it had in the response, which was exactly "Pass" or "Fail", and none is an
\* element with another value coerced to "Fail" (or to "Pass")
C36_NormalizationChangesNothing ==
    (ParseDone /\ ~returned.raised /\ ~returned.none) =>
        /\ IsSubsequence(returned.cases, decoded.elems)
        /\ \A j \in 1..Len(returned.cases) :
             \E i \in 1..Len(decoded.elems) :
                /\ decoded.elems[i] = returned.cases[j]
                /\ decoded.elems[i].expected_result
                      \in {<<"P","a","s","s">>, <<"F","a","i","l">>}

\* the parser was given an array with a case spelled "pass" and a case
\* spelled "Fail", and returned the second one alone, as it was
C36_Witness ==
    /\ ParseDone /\ ~returned.raised /\ ~returned.none
    /\ Len(decoded.elems) = 2
    /\ decoded.elems[1].expected_result = <<"p","a","s","s">>
    /\ decoded.elems[2].expected_result = <<"F","a","i","l">>
    /\ returned.cases = <<decoded.elems[2]>>

----------------------------------------------------------------------------
(* C37 *)

\* json.loads on the cleaned text, the repair step left out
DecodedUnrepaired == loads(cleaned_text(response_text))

\* C37: for every response text that decodes as a JSON array without the
\* repair step, with or without escapes in its strings, _parse_llm_response
\* returns the cases, with the string values, that decoding the unrepaired
\* text and validating it gives
C37_RepairPreservesWellFormed ==
    (returned # Pending /\ response_text # Pending
        /\ DecodedUnrepaired.kind = "array") =>
        returned = parse_result(impl, DecodedUnrepaired, candidate_type)

----------------------------------------------------------------------------
(* C35 *)

\* C35: the sink writes only when the field loop has gone past every field
\* (none is Pending or Attempting); the record-format write comes before the
\* tabular one; each artifact is written at most once in a run; once the
\* first write has begun the result mapping and the artifacts written so far
\* do not change
C35_SinkOnFinishedResult ==
    /\ [][sink_log' # sink_log =>
             /\ pc = "save"
             /\ idx = NPairs + 1
             /\ \A p \in 1..NPairs : Finished(p)
             /\ sink_log = <<>>]_vars
    /\ [](/\ sink_log \in {<<>>, <<"json">>, <<"json", "csv">>}
          /\ json_artifact.written => sink_log # <<>>
          /\ csv_artifact.written => sink_log = <<"json", "csv">>)
    /\ [][sink_log # <<>> =>
             /\ all_test_cases' = all_test_cases
             /\ json_artifact' = json_artifact
             /\ csv_artifact' = csv_artifact]_vars

\* both artifacts were written after a run over two fields, one of them
\* exhausted
C35_Witness ==
    /\ sink_log = <<"json", "csv">>
    /\ json_artifact.written /\ csv_artifact.written
    /\ NPairs = 2 /\ idx = 3
    /\ \E p \in 1..NPairs : Exhausted(p)
    /\ pc = "done"

----------------------------------------------------------------------------
(* C34 *)

\* the client's call failed, gave a response without text, or the client is
\* of an unsupported type
CompletionFailed == completion_input.api # "text"
Falsy(v) == v.none \/ v.text = <<>>

\* C34 (as stated): generate_test_cases_with_llm never raises; for an error
\* of the API call, a response without text and an unsupported client it
\* returns None; on a falsy return the attempt fails and the parser is not
\* invoked
C34_FalsyFailsWithoutParser ==
    /\ completion # Pending =>
         /\ ~completion.raised
         /\ CompletionFailed => completion.value.none
    /\ attempt_result # Pending /\ Falsy(completion.value) =>
         /\ ~attempt_result.succeeded
         /\ ~attempt_result.parser_called

\* C34 (amended): generate_test_cases_with_llm never raises; for an error of
\* the API call, a response without text and an unsupported client it
\* returns None; on a falsy return the attempt fails without reaching the
\* except branch; app.py does not invoke the parser, generate_test_cases.py
\* invokes it on the falsy value and the parser returns None
C34_FalsyFailsAttempt ==
    /\ completion # Pending =>
         /\ ~completion.raised
         /\ CompletionFailed => completion.value.none
    /\ attempt_result # Pending /\ Falsy(completion.value) =>
         /\ ~attempt_result.succeeded
         /\ ~attempt_result.raised
         /\ impl = "app" => ~attempt_result.parser_called
         /\ impl = "gtc" => attempt_result.parser_called /\ attempt_result.returned_none

\* an API error gave None and the retry iteration of app.py failed without
\* a parser call
C34_Witness ==
    /\ impl = "app"
    /\ completion_input.client = "AzureOpenAI"
    /\ completion_input.api = "transport error"
    /\ completion # Pending /\ completion.value.none
    /\ attempt_result # Pending
    /\ ~attempt_result.succeeded /\ ~attempt_result.parser_called

----------------------------------------------------------------------------
(* C38 *)

\* the data rows of the tabular artifact (all rows but the header)
DataRows == { csv_artifact.content[r] : r \in 2..Len(csv_artifact.content) }
\* the sum of the lengths of the case lists of the record-format artifact
JsonCases ==
    LET upto[i \in 0..Len(json_artifact.content)] ==
            IF i = 0 THEN 0 ELSE upto[i - 1] + Len(json_artifact.content[i].cases)
    IN  upto[Len(json_artifact.content)]

\* C38: whenever both artifacts are written, the tabular artifact has as
\* many data rows as the record-format artifact has cases, the summary
\* reports that number as its total, and the values SchemaName + "." +
\* FieldName of the rows are the keys of the record-format artifact
C38_OutputsAgree ==
    json_artifact.written /\ csv_artifact.written =>
        /\ Len(csv_artifact.content) - 1 = JsonCases
        /\ summary.logged => summary.cases = JsonCases
        /\ { row[1] \o <<".">> \o row[2] : row \in DataRows } =
               { json_artifact.content[i].key : i \in 1..Len(json_artifact.content) }

====
